---- MODULE Spec2Model ----
(***************************************************************************)
(* Bulk import of books and library users (BookFileProcessor and           *)
(* UserFileProcessor) over the persisted Book and LibraryUser tables.      *)
(*                                                                         *)
(* Text is a sequence of one-character strings, so that strip, split,      *)
(* lower, int() and str() are computed character by character.  An import  *)
(* session is a state machine: process_file validates the file, then one   *)
(* step per iteration of the row loop, then the return.  The row loop runs *)
(* inside transaction.atomic(): an exception that leaves the block rolls   *)
(* the tables back to their state at the start of the block.               *)
(***************************************************************************)
EXTENDS Integers, Sequences, FiniteSets, TLC

VARIABLES
    books,          \* the Book table, in insertion order
    users,          \* the LibraryUser table, in insertion order
    pc,             \* "idle": no call yet; "rows": in the row loop;
                    \* "aborted": returned before the loop; "finished":
                    \* returned after it; "raised": left by an exception
    kind,           \* "book" | "user": which processor class is running
    file_type,      \* the declared type handed to process_file
    file,           \* the uploaded file
    lines,          \* txt: content.strip().split('\n'); excel: the rows of df
    idx,            \* txt: enumerate(lines[1:], start=2); excel: df index
    created_count,  \* created_count
    errors,         \* errors
    result,         \* <<>> until the call returns, then <<the returned dict>>
    txn,            \* the tables when transaction.atomic() was entered
    done,           \* the calls made before the running one, oldest first:
                    \* how each ended, what it returned, the tables it left
    loans,          \* the Loan table, in insertion order
    next_id,        \* the id the next Loan gets
    last_op,        \* the last loan or book operation and what it answered
    sess,           \* the calls of process_txt_file that run at the same
                    \* time, each with its locals and its open transaction
    raced,          \* two such calls have passed the uniqueness check with
                    \* the same key before either row was inserted
    response,       \* <<>> until bulk_upload answers, then <<the Response>>
    today,          \* timezone.now().date(), in days
    listing,        \* <<>> until the overdue endpoint answers, then <<the
                    \* ids of the Loans it lists>>
    req             \* the POSTs of a Loan that run at the same time, each
                    \* with the Book instance it has read

vars == <<books, users, pc, kind, file_type, file, lines, idx,
          created_count, errors, result, txn, done, loans, next_id, last_op,
          sess, raced, response, today, listing, req>>

\* the locals of an import call and the record of the calls before it
import_vars == <<pc, kind, file_type, file, lines, idx, created_count, errors,
                 result, txn, done>>

\* the Loan table and the record of the last operation on it
loan_vars == <<loans, next_id, last_op>>

\* the calls that run at the same time
conc_vars == <<sess, raced>>

\* the answer of bulk_upload, the overdue listing and the concurrent POSTs
view_vars == <<response, today, listing, req>>

\* what an import call leaves alone
not_import == <<done, loans, next_id, last_op, sess, raced, response, today,
                listing, req>>

(***************************************************************************)
(* Bounds of the model.                                                    *)
(***************************************************************************)
\* most data lines (txt) or table rows (excel) of an uploaded file
MaxRows == 2
\* most blank lines in front of the header of an uploaded text file
MaxLead == 1
\* most calls of process_file a caller makes one after the other
MaxCalls == 2
\* most copies of a Book
MaxCopies == 2
\* most Loans ever created
MaxLoans == 2
\* most data lines of a file imported at the same time as another
MaxConcRows == 1
\* the last day the clock reaches, and the latest due date of a Loan
MaxDay == 2

(***************************************************************************)
(* Python string operations.                                               *)
(***************************************************************************)
\* str.strip() with no argument removes these (the ASCII whitespace)
Whitespace == {" ", "\t", "\n", "\r", "\f"}

FirstNonWs(s) ==
    IF \A i \in 1..Len(s) : s[i] \in Whitespace
    THEN Len(s) + 1
    ELSE CHOOSE i \in 1..Len(s) :
            s[i] \notin Whitespace /\ \A j \in 1..(i - 1) : s[j] \in Whitespace

LastNonWs(s) ==
    IF \A i \in 1..Len(s) : s[i] \in Whitespace
    THEN 0
    ELSE CHOOSE i \in 1..Len(s) :
            s[i] \notin Whitespace /\ \A j \in (i + 1)..Len(s) : s[j] \in Whitespace

\* str.strip()
PyStrip(s) == SubSeq(s, FirstNonWs(s), LastNonWs(s))

\* the place of the k-th sep in s: 0 for k = 0, Len(s) + 1 past the last one
SepAt(s, sep, k) ==
    LET at == {i \in 1..Len(s) : s[i] = sep}
    IN  IF k = 0 THEN 0
        ELSE IF k > Cardinality(at) THEN Len(s) + 1
        ELSE CHOOSE i \in at : Cardinality({j \in at : j < i}) = k - 1

\* str.split(sep) for a one-character separator: the stretches between
\* one sep and the next, the empty ones too
PySplit(s, sep) ==
    LET n == Cardinality({i \in 1..Len(s) : s[i] = sep})
    IN  [k \in 1..(n + 1) |->
            SubSeq(s, SepAt(s, sep, k - 1) + 1, SepAt(s, sep, k) - 1)]

RECURSIVE PyJoin(_, _)
\* sep.join(parts)
PyJoin(sep, parts) ==
    IF parts = <<>> THEN <<>>
    ELSE IF Len(parts) = 1 THEN parts[1]
    ELSE parts[1] \o sep \o PyJoin(sep, Tail(parts))

UpperCase == <<"A", "B", "C", "D", "E", "F", "G", "H", "I", "J", "K", "L", "M",
               "N", "O", "P", "Q", "R", "S", "T", "U", "V", "W", "X", "Y", "Z">>
LowerCase == <<"a", "b", "c", "d", "e", "f", "g", "h", "i", "j", "k", "l", "m",
               "n", "o", "p", "q", "r", "s", "t", "u", "v", "w", "x", "y", "z">>

LowerChar(c) ==
    IF \E i \in 1..Len(UpperCase) : UpperCase[i] = c
    THEN LowerCase[CHOOSE i \in 1..Len(UpperCase) : UpperCase[i] = c]
    ELSE c

\* str.lower()
PyLower(s) == [i \in 1..Len(s) |-> LowerChar(s[i])]

DigitChars == <<"0", "1", "2", "3", "4", "5", "6", "7", "8", "9">>

IsDigit(c) == \E i \in 1..Len(DigitChars) : DigitChars[i] = c

DigitVal(c) == (CHOOSE i \in 1..Len(DigitChars) : DigitChars[i] = c) - 1

RECURSIVE DigitsValue(_, _)
DigitsValue(s, acc) ==
    IF s = <<>> THEN acc
    ELSE IF Head(s) = "_" THEN DigitsValue(Tail(s), acc)
    ELSE DigitsValue(Tail(s), acc * 10 + DigitVal(Head(s)))

\* the digits of an int literal: digits with single underscores between them
IsIntBody(s) ==
    /\ Len(s) >= 1
    /\ IsDigit(s[1])
    /\ IsDigit(s[Len(s)])
    /\ \A i \in 1..Len(s) : IsDigit(s[i]) \/ s[i] = "_"
    /\ \A i \in 1..(Len(s) - 1) : ~(s[i] = "_" /\ s[i + 1] = "_")

\* int(s) for a str: [ok |-> TRUE, v |-> the value], or ok = FALSE where
\* Python raises ValueError (invalid literal for int() with base 10)
PyInt(s) ==
    LET t == PyStrip(s)
        signed == t # <<>> /\ t[1] \in {"+", "-"}
        body == IF signed THEN Tail(t) ELSE t
    IN  IF IsIntBody(body)
        THEN [ok |-> TRUE,
              v |-> IF signed /\ t[1] = "-"
                    THEN 0 - DigitsValue(body, 0)
                    ELSE DigitsValue(body, 0)]
        ELSE [ok |-> FALSE, v |-> 0]

RECURSIVE NatStr(_)
NatStr(n) ==
    IF n < 10 THEN <<DigitChars[n + 1]>>
    ELSE Append(NatStr(n \div 10), DigitChars[(n % 10) + 1])

\* str(n) for an int, as an f-string renders it
PyStr(n) == IF n < 0 THEN <<"-">> \o NatStr(0 - n) ELSE NatStr(n)

(***************************************************************************)
(* Field names.                                                            *)
(***************************************************************************)
S_title == <<"t", "i", "t", "l", "e">>
S_author == <<"a", "u", "t", "h", "o", "r">>
S_isbn == <<"i", "s", "b", "n">>
S_publisher == <<"p", "u", "b", "l", "i", "s", "h", "e", "r">>
S_publication_year == <<"p", "u", "b", "l", "i", "c", "a", "t", "i", "o", "n", "_", "y", "e", "a", "r">>
S_category == <<"c", "a", "t", "e", "g", "o", "r", "y">>
S_quantity == <<"q", "u", "a", "n", "t", "i", "t", "y">>
S_full_name == <<"f", "u", "l", "l", "_", "n", "a", "m", "e">>
S_email == <<"e", "m", "a", "i", "l">>
S_phone == <<"p", "h", "o", "n", "e">>
S_address == <<"a", "d", "d", "r", "e", "s", "s">>
S_registration_number == <<"r", "e", "g", "i", "s", "t", "r", "a", "t", "i", "o", "n", "_", "n", "u", "m", "b", "e", "r">>
S_is_active == <<"i", "s", "_", "a", "c", "t", "i", "v", "e">>

\* expected_fields / expected_columns of BookFileProcessor
BookExpectedFields ==
    <<S_title, S_author, S_isbn, S_publisher, S_publication_year, S_category,
      S_quantity>>

\* expected_fields / expected_columns of UserFileProcessor
UserExpectedFields ==
    <<S_full_name, S_email, S_phone, S_address, S_registration_number,
      S_is_active>>

(***************************************************************************)
(* The returned dict and the entries of its errors list.  An entry is the  *)
(* f-string's parts: its prefix ("Line", "Row" or "" for a whole-file      *)
(* message), the number after the prefix, the fixed text and the           *)
(* interpolated value.                                                     *)
(***************************************************************************)
Msg(prefix, n, text, arg) == [prefix |-> prefix, n |-> n, text |-> text, arg |-> arg]

Outcome(success, created, errs) ==
    [success |-> success, created |-> created, errors |-> errs]

\* the three whole-file returns, each {'success': False, 'created': 0, 'errors': [one]}
Fatal(text, arg) == Outcome(FALSE, 0, <<Msg("", 0, text, arg)>>)

\* the return at the end of every process_*_file
\* variant: success reported only when no row failed
FinalOutcome_NoErrors(count, errs) == Outcome(errs = <<>>, count, errs)

FinalOutcome(count, errs) == Outcome(count > 0, count, errs)

(***************************************************************************)
(* The Book table.  Book.objects.create runs the INSERT: the table's       *)
(* UNIQUE(isbn) and the CHECK (>= 0) of each PositiveIntegerField raise    *)
(* IntegrityError.  publication_year is <<>> for NULL, else <<year>>.      *)
(***************************************************************************)
\* variant: the lookup filters on the wrong column
BookIsbnExists_ByTitle(store, isbn) == \E i \in 1..Len(store) : store[i].title = isbn

\* variant: the lookup finds nothing
BookIsbnExists_Never(store, isbn) == FALSE

\* Book.objects.filter(isbn=isbn).exists()
BookIsbnExists(store, isbn) == \E i \in 1..Len(store) : store[i].isbn = isbn

\* variant: the isbn column has no unique index
BookInsertOk_NoUnique(store, data) ==
    /\ data.quantity >= 0
    /\ data.available_quantity >= 0
    /\ (data.publication_year = <<>> \/ data.publication_year[1] >= 0)

BookInsertOk(store, data) ==
    /\ \A i \in 1..Len(store) : store[i].isbn # data.isbn
    /\ data.quantity >= 0
    /\ data.available_quantity >= 0
    /\ (data.publication_year = <<>> \/ data.publication_year[1] >= 0)

(***************************************************************************)
(* BookFileProcessor.process_txt_file                                      *)
(***************************************************************************)
\* lines = content.strip().split('\n')
TxtLines(text) == PySplit(PyStrip(text), "\n")

\* variant: the header is not compared with the expected fields
TxtOpen_AnyHeader(text, expected_fields) ==
    LET ls == TxtLines(text)
    IN  IF Len(ls) < 2
        THEN [fatal |-> TRUE,
              outcome |-> Fatal("File must contain at least a header and one data row", <<>>)]
        ELSE [fatal |-> FALSE, rows |-> ls, first |-> 2]

\* the start of process_txt_file, up to the row loop: the two whole-file
\* returns, or the lines to loop over
TxtOpen(text, expected_fields) ==
    LET ls == TxtLines(text)
    IN  IF Len(ls) < 2
        THEN [fatal |-> TRUE,
              outcome |-> Fatal("File must contain at least a header and one data row", <<>>)]
        ELSE IF PySplit(PyStrip(ls[1]), "|") # expected_fields
        THEN [fatal |-> TRUE,
              outcome |-> Fatal("Invalid header. Expected:", PyJoin(<<"|">>, expected_fields))]
        ELSE [fatal |-> FALSE, rows |-> ls, first |-> 2]

\* variant: available_quantity is left to the model's default of 1
BookTxtData_DefaultAvailable(fields) ==
    LET f(i) == PyStrip(fields[i])
        year == PyInt(f(5))
        qty == PyInt(f(7))
    IN  IF f(5) # <<>> /\ ~year.ok THEN [ok |-> FALSE, bad |-> f(5)]
        ELSE IF ~qty.ok THEN [ok |-> FALSE, bad |-> f(7)]
        ELSE [ok |-> TRUE,
              data |-> [title |-> f(1), author |-> f(2), isbn |-> f(3),
                        publisher |-> f(4),
                        publication_year |-> IF f(5) # <<>> THEN <<year.v>> ELSE <<>>,
                        category |-> f(6),
                        quantity |-> qty.v,
                        available_quantity |-> 1]]

\* the dict built from the fields of one line.  The values are evaluated in
\* the order written: publication_year before quantity, so the first int()
\* that fails is the one whose ValueError is reported.
BookTxtData(fields) ==
    LET f(i) == PyStrip(fields[i])
        year == PyInt(f(5))
        qty == PyInt(f(7))
    IN  IF f(5) # <<>> /\ ~year.ok THEN [ok |-> FALSE, bad |-> f(5)]
        ELSE IF ~qty.ok THEN [ok |-> FALSE, bad |-> f(7)]
        ELSE [ok |-> TRUE,
              data |-> [title |-> f(1), author |-> f(2), isbn |-> f(3),
                        publisher |-> f(4),
                        publication_year |-> IF f(5) # <<>> THEN <<year.v>> ELSE <<>>,
                        category |-> f(6),
                        quantity |-> qty.v,
                        available_quantity |-> qty.v]]

\* variant: neither the lookup nor the table's index refuses an isbn
BookTxtRow_Unchecked(line, n, store) ==
    LET fields == PySplit(PyStrip(line), "|")
        parsed == BookTxtData(fields)
    IN  IF PyStrip(line) = <<>> THEN [tag |-> "skip"]
        ELSE IF Len(fields) # Len(BookExpectedFields)
        THEN [tag |-> "error",
              err |-> Msg("Line", n, "Expected 7 fields, got", PyStr(Len(fields)))]
        ELSE IF ~parsed.ok
        THEN [tag |-> "error",
              err |-> Msg("Line", n, "invalid literal for int() with base 10", parsed.bad)]
        ELSE IF parsed.data.quantity < 0 THEN [tag |-> "raise"]
        ELSE [tag |-> "create", data |-> parsed.data]

\* one iteration of the loop over lines[1:]: what it does with the line
\* numbered n, given the Book table as it is now
\*   skip   : blank line, continue
\*   error  : one message appended, continue
\*   create : Book.objects.create succeeded
\*   raise  : Book.objects.create raised IntegrityError (not caught)
BookTxtRow(line, n, store) ==
    LET fields == PySplit(PyStrip(line), "|")
        parsed == BookTxtData(fields)
    IN  IF PyStrip(line) = <<>> THEN [tag |-> "skip"]
        ELSE IF Len(fields) # Len(BookExpectedFields)
        THEN [tag |-> "error",
              err |-> Msg("Line", n, "Expected 7 fields, got", PyStr(Len(fields)))]
        ELSE IF ~parsed.ok
        THEN [tag |-> "error",
              err |-> Msg("Line", n, "invalid literal for int() with base 10", parsed.bad)]
        ELSE IF BookIsbnExists(store, parsed.data.isbn)
        THEN [tag |-> "error",
              err |-> Msg("Line", n, "Book with ISBN already exists", parsed.data.isbn)]
        ELSE IF ~BookInsertOk(store, parsed.data) THEN [tag |-> "raise"]
        ELSE [tag |-> "create", data |-> parsed.data]

(***************************************************************************)
(* The LibraryUser table: UNIQUE(email), UNIQUE(registration_number).      *)
(***************************************************************************)
\* LibraryUser.objects.filter(registration_number=r).exists()
UserRegistrationExists(store, r) ==
    \E i \in 1..Len(store) : store[i].registration_number = r

\* LibraryUser.objects.filter(email=e).exists()
UserEmailExists(store, e) == \E i \in 1..Len(store) : store[i].email = e

UserInsertOk(store, data) ==
    /\ \A i \in 1..Len(store) :
          /\ store[i].registration_number # data.registration_number
          /\ store[i].email # data.email

(***************************************************************************)
(* UserFileProcessor.process_txt_file                                      *)
(***************************************************************************)
\* the literals is_active is compared with, after strip().lower()
TrueLiterals == {<<"t", "r", "u", "e">>, <<"1">>, <<"y", "e", "s">>}

\* variant: the value is compared as it is written, without lower()
UserTxtData_CaseSensitive(fields) ==
    LET f(i) == PyStrip(fields[i])
    IN  [full_name |-> f(1), email |-> f(2), phone |-> f(3), address |-> f(4),
         registration_number |-> f(5),
         is_active |-> f(6) \in TrueLiterals]

UserTxtData(fields) ==
    LET f(i) == PyStrip(fields[i])
    IN  [full_name |-> f(1), email |-> f(2), phone |-> f(3), address |-> f(4),
         registration_number |-> f(5),
         is_active |-> PyLower(f(6)) \in TrueLiterals]

\* variant: the email is looked up before the registration number
UserConflict_EmailFirst(prefix, n, store, data) ==
    IF UserEmailExists(store, data.email)
    THEN <<Msg(prefix, n, "User with email already exists", data.email)>>
    ELSE IF UserRegistrationExists(store, data.registration_number)
    THEN <<Msg(prefix, n, "User with registration already exists",
               data.registration_number)>>
    ELSE <<>>

\* the two exists() checks of one user row, in the order the code runs them:
\* the message of the first that finds a record, or <<>>
UserConflict(prefix, n, store, data) ==
    IF UserRegistrationExists(store, data.registration_number)
    THEN <<Msg(prefix, n, "User with registration already exists",
               data.registration_number)>>
    ELSE IF UserEmailExists(store, data.email)
    THEN <<Msg(prefix, n, "User with email already exists", data.email)>>
    ELSE <<>>

\* one iteration of the loop over lines[1:] (see BookTxtRow)
UserTxtRow(line, n, store) ==
    LET fields == PySplit(PyStrip(line), "|")
        data == UserTxtData(fields)
        conflict == UserConflict("Line", n, store, data)
    IN  IF PyStrip(line) = <<>> THEN [tag |-> "skip"]
        ELSE IF Len(fields) # Len(UserExpectedFields)
        THEN [tag |-> "error",
              err |-> Msg("Line", n, "Expected 6 fields, got", PyStr(Len(fields)))]
        ELSE IF conflict # <<>> THEN [tag |-> "error", err |-> conflict[1]]
        ELSE IF ~UserInsertOk(store, data) THEN [tag |-> "raise"]
        ELSE [tag |-> "create", data |-> data]

(***************************************************************************)
(* Spreadsheets.  pd.read_excel gives a table of cells: NaN for an empty   *)
(* cell, else a str, an int or a bool.                                     *)
(***************************************************************************)
NaN == [t |-> "nan"]
StrCell(s) == [t |-> "str", v |-> s]
IntCell(n) == [t |-> "int", v |-> n]
BoolCell(b) == [t |-> "bool", v |-> b]

\* pd.isna / pd.notna of a cell
IsNa(c) == c.t = "nan"

\* str(cell)
CellStr(c) ==
    CASE c.t = "str" -> c.v
      [] c.t = "int" -> PyStr(c.v)
      [] c.t = "bool" -> IF c.v THEN <<"T", "r", "u", "e">> ELSE <<"F", "a", "l", "s", "e">>
      [] c.t = "nan" -> <<"n", "a", "n">>

\* int(cell): ValueError for a str that is no int literal and for NaN
CellInt(c) ==
    CASE c.t = "str" ->
            IF PyInt(c.v).ok
            THEN [ok |-> TRUE, v |-> PyInt(c.v).v]
            ELSE [ok |-> FALSE, text |-> "invalid literal for int() with base 10",
                  bad |-> c.v]
      [] c.t = "int" -> [ok |-> TRUE, v |-> c.v]
      [] c.t = "bool" -> [ok |-> TRUE, v |-> IF c.v THEN 1 ELSE 0]
      [] c.t = "nan" ->
            [ok |-> FALSE, text |-> "cannot convert float NaN to integer", bad |-> <<>>]

\* bool(cell) for a cell that is not NaN
CellBool(c) ==
    CASE c.t = "str" -> c.v # <<>>
      [] c.t = "int" -> c.v # 0
      [] c.t = "bool" -> c.v

SeqRange(q) == {q[i] : i \in 1..Len(q)}

\* df.columns = df.columns.str.lower().str.strip()
NormalizeColumns(columns) == [i \in 1..Len(columns) |-> PyStrip(PyLower(columns[i]))]

\* the start of process_excel_file, up to the row loop.  A file is
\* [readable, text, columns, rows]; each row of the table becomes a function from
\* the normalized column names to its cells.
ExcelOpen(f, expected_columns) ==
    LET cols == NormalizeColumns(f.columns)
        missing == SeqRange(expected_columns) \ SeqRange(cols)
        at(c) == CHOOSE i \in 1..Len(cols) : cols[i] = c
    IN  IF ~f.readable
        THEN [fatal |-> TRUE, outcome |-> Fatal("Error reading Excel file", <<>>)]
        ELSE IF missing # {}
        THEN [fatal |-> TRUE, outcome |-> Fatal("Missing required columns:", missing)]
        ELSE [fatal |-> FALSE,
              rows |-> [r \in 1..Len(f.rows) |->
                           [c \in SeqRange(cols) |-> f.rows[r][at(c)]]],
              first |-> 0]

(***************************************************************************)
(* BookFileProcessor.process_excel_file                                    *)
(***************************************************************************)
\* the dict built from one row; publication_year is evaluated before quantity
BookExcelData(row) ==
    LET year == CellInt(row[S_publication_year])
        qty == CellInt(row[S_quantity])
    IN  IF ~IsNa(row[S_publication_year]) /\ ~year.ok
        THEN [ok |-> FALSE, text |-> year.text, bad |-> year.bad]
        ELSE IF ~qty.ok THEN [ok |-> FALSE, text |-> qty.text, bad |-> qty.bad]
        ELSE [ok |-> TRUE,
              data |-> [title |-> PyStrip(CellStr(row[S_title])),
                        author |-> PyStrip(CellStr(row[S_author])),
                        isbn |-> PyStrip(CellStr(row[S_isbn])),
                        publisher |-> IF ~IsNa(row[S_publisher])
                                      THEN PyStrip(CellStr(row[S_publisher]))
                                      ELSE <<>>,
                        publication_year |-> IF ~IsNa(row[S_publication_year])
                                             THEN <<year.v>>
                                             ELSE <<>>,
                        category |-> IF ~IsNa(row[S_category])
                                     THEN PyStrip(CellStr(row[S_category]))
                                     ELSE <<>>,
                        quantity |-> qty.v,
                        available_quantity |-> qty.v]]

\* variant: only the isbn cell decides whether the row is passed over
BookExcelRow_IsbnOnly(row, i, store) ==
    LET parsed == BookExcelData(row)
    IN  IF IsNa(row[S_isbn]) THEN [tag |-> "skip"]
        ELSE IF ~parsed.ok
        THEN [tag |-> "error", err |-> Msg("Row", i + 2, parsed.text, parsed.bad)]
        ELSE IF BookIsbnExists(store, parsed.data.isbn)
        THEN [tag |-> "error",
              err |-> Msg("Row", i + 2, "Book with ISBN already exists",
                          parsed.data.isbn)]
        ELSE IF ~BookInsertOk(store, parsed.data) THEN [tag |-> "raise"]
        ELSE [tag |-> "create", data |-> parsed.data]

\* one iteration of the loop over df.iterrows(), i being the row's index
BookExcelRow(row, i, store) ==
    LET parsed == BookExcelData(row)
    IN  IF IsNa(row[S_title]) \/ IsNa(row[S_isbn]) THEN [tag |-> "skip"]
        ELSE IF ~parsed.ok
        THEN [tag |-> "error", err |-> Msg("Row", i + 2, parsed.text, parsed.bad)]
        ELSE IF BookIsbnExists(store, parsed.data.isbn)
        THEN [tag |-> "error",
              err |-> Msg("Row", i + 2, "Book with ISBN already exists",
                          parsed.data.isbn)]
        ELSE IF ~BookInsertOk(store, parsed.data) THEN [tag |-> "raise"]
        ELSE [tag |-> "create", data |-> parsed.data]

(***************************************************************************)
(* UserFileProcessor.process_excel_file                                    *)
(***************************************************************************)
UserExcelData(row) ==
    [full_name |-> PyStrip(CellStr(row[S_full_name])),
     email |-> PyStrip(CellStr(row[S_email])),
     phone |-> IF ~IsNa(row[S_phone]) THEN PyStrip(CellStr(row[S_phone])) ELSE <<>>,
     address |-> IF ~IsNa(row[S_address])
                 THEN PyStrip(CellStr(row[S_address]))
                 ELSE <<>>,
     registration_number |-> PyStrip(CellStr(row[S_registration_number])),
     is_active |-> IF ~IsNa(row[S_is_active]) THEN CellBool(row[S_is_active]) ELSE TRUE]

UserExcelRow(row, i, store) ==
    LET data == UserExcelData(row)
        conflict == UserConflict("Row", i + 2, store, data)
    IN  IF IsNa(row[S_full_name]) \/ IsNa(row[S_registration_number])
        THEN [tag |-> "skip"]
        ELSE IF conflict # <<>> THEN [tag |-> "error", err |-> conflict[1]]
        ELSE IF ~UserInsertOk(store, data) THEN [tag |-> "raise"]
        ELSE [tag |-> "create", data |-> data]

(***************************************************************************)
(* process_file of both classes: the dispatch on the declared type.        *)
(***************************************************************************)
\* variant: a type that is not 'excel' is read as text
ProcessFile_DefaultTxt(ft, f, expected) ==
    IF ft = "excel" THEN ExcelOpen(f, expected) ELSE TxtOpen(f.text, expected)

ProcessFile(ft, f, expected) ==
    IF ft = "txt" THEN TxtOpen(f.text, expected)
    ELSE IF ft = "excel" THEN ExcelOpen(f, expected)
    ELSE [fatal |-> TRUE, outcome |-> Fatal("Unsupported file type:", ft)]

(***************************************************************************)
(* The session: the steps every process_*_file shares.                     *)
(***************************************************************************)
\* the call, up to the first iteration of the row loop, or a whole-file return
Begin(k, ft, f, opened) ==
    /\ kind' = k
    /\ file_type' = ft
    /\ file' = f
    /\ created_count' = 0
    /\ errors' = <<>>
    /\ IF opened.fatal
       THEN /\ pc' = "aborted"
            /\ result' = <<opened.outcome>>
            /\ UNCHANGED <<lines, idx, txn>>
       ELSE /\ pc' = "rows"
            /\ lines' = opened.rows
            /\ idx' = opened.first
            /\ txn' = <<books, users>>
            /\ UNCHANGED result
    /\ UNCHANGED <<books, users>>

\* variant: the blank line is reported instead of passed over
RowSkip_Reported ==
    /\ errors' = Append(errors, Msg("Line", idx, "Expected fields, got", <<"1">>))
    /\ idx' = idx + 1
    /\ UNCHANGED <<books, users, pc, created_count>>

\* `continue` on a blank line or an empty row
RowSkip ==
    /\ idx' = idx + 1
    /\ UNCHANGED <<books, users, pc, created_count, errors>>

\* variant: a failed row undoes the rows created before it
RowError_Rollback(err) ==
    /\ errors' = Append(errors, err)
    /\ idx' = idx + 1
    /\ books' = txn[1]
    /\ users' = txn[2]
    /\ UNCHANGED <<pc, created_count>>

\* variant: the loop ends at the first failed row (break for continue)
RowError_Break(err) ==
    /\ errors' = Append(errors, err)
    /\ idx' = Len(lines) + 1
    /\ UNCHANGED <<books, users, pc, created_count>>

\* variant: the failed row also deletes the oldest record of the table
RowError_DeleteOldest(err) ==
    /\ errors' = Append(errors, err)
    /\ idx' = idx + 1
    /\ IF kind = "book"
       THEN books' = (IF books = <<>> THEN books ELSE Tail(books)) /\ UNCHANGED users
       ELSE users' = (IF users = <<>> THEN users ELSE Tail(users)) /\ UNCHANGED books
    /\ UNCHANGED <<pc, created_count>>

\* variant: the newest message is put in front of the list
RowError_Prepend(err) ==
    /\ errors' = <<err>> \o errors
    /\ idx' = idx + 1
    /\ UNCHANGED <<books, users, pc, created_count>>

\* errors.append(...) and on to the next row: the two `continue` branches
\* and the except clause
RowError(err) ==
    /\ errors' = Append(errors, err)
    /\ idx' = idx + 1
    /\ UNCHANGED <<books, users, pc, created_count>>

\* objects.create(**data) succeeded; created_count += 1
RowCreate(data) ==
    /\ IF kind = "book"
       THEN books' = Append(books, data) /\ UNCHANGED users
       ELSE users' = Append(users, data) /\ UNCHANGED books
    /\ created_count' = created_count + 1
    /\ idx' = idx + 1
    /\ UNCHANGED <<pc, errors>>

\* variant: the loop runs outside any transaction, so nothing is rolled back
RowRaise_KeepRows ==
    /\ pc' = "raised"
    /\ UNCHANGED <<books, users, idx, created_count, errors>>

\* objects.create raised an exception the except clause does not name: it
\* leaves transaction.atomic(), which rolls back, and then the call
RowRaise ==
    /\ books' = txn[1]
    /\ users' = txn[2]
    /\ pc' = "raised"
    /\ UNCHANGED <<idx, created_count, errors>>

\* one iteration of the row loop, r being what the iteration does
RowStep(r) ==
    /\ UNCHANGED <<kind, file_type, file, lines, result, txn>>
    /\ CASE r.tag = "skip" -> RowSkip
         [] r.tag = "error" -> RowError(r.err)
         [] r.tag = "create" -> RowCreate(r.data)
         [] r.tag = "raise" -> RowRaise

\* the loop is over: the atomic block commits and the dict is returned
Return ==
    /\ result' = <<FinalOutcome(created_count, errors)>>
    /\ pc' = "finished"
    /\ UNCHANGED <<books, users, kind, file_type, file, lines, idx,
                   created_count, errors, txn>>

(***************************************************************************)
(* Uploaded files and the tables they meet.  A file handed to the text     *)
(* variant is UTF-8 text; one handed to the spreadsheet variant is a       *)
(* table, or bytes read_excel cannot read.  Column names of a table are    *)
(* distinct after normalization.  Every value fits its column's            *)
(* max_length.                                                             *)
(***************************************************************************)
Bar == <<"|">>

RECURSIVE Blanks(_)
Blanks(n) == IF n = 0 THEN <<>> ELSE <<<<>>>> \o Blanks(n - 1)

SeqsUpTo(S, n) == UNION {[1..k -> S] : k \in 0..n}

\* the text file with `lead` blank lines, then the header, then the data lines
TxtFile(lead, header, data) ==
    [readable |-> TRUE,
     text |-> PyJoin(<<"\n">>, Blanks(lead) \o <<header>> \o data),
     columns |-> <<>>, rows |-> <<>>]

TableFile(columns, rows) ==
    [readable |-> TRUE, text |-> <<>>, columns |-> columns, rows |-> rows]

\* bytes that are no spreadsheet: pd.read_excel raises on them
UnreadableFile == [readable |-> FALSE, text |-> <<>>, columns |-> <<>>, rows |-> <<>>]

\* the tables with one of `layouts` as column row and up to MaxRows of
\* `rowset` as rows.  A layout is [columns, at]: the column names as the
\* sheet writes them, and under each the position its cell has in a row of
\* `rowset` (0: a column the import does not know, its cells empty).
Tables(layouts, rowset) ==
    {TableFile(lay.columns,
               [i \in 1..Len(rs) |->
                   [j \in 1..Len(lay.columns) |->
                       IF lay.at[j] = 0 THEN NaN ELSE rs[i][lay.at[j]]]]) :
        lay \in layouts, rs \in SeqsUpTo(rowset, MaxRows)}

BookHeader == PyJoin(Bar, BookExpectedFields)

\* header lines of uploaded text files: the expected one, the expected one
\* of a CRLF file, and a wrong one
BookTxtHeaders ==
    {BookHeader, Append(BookHeader, "\r"), PyJoin(Bar, <<S_title, S_author>>)}

BookTxtDataLines ==
    { PyJoin(Bar, <<<<"T">>, <<"A">>, <<"1">>, <<"P">>, <<"2">>, <<"C">>, <<"3">>>>),
      PyJoin(Bar, <<<<"U">>, <<"A">>, <<"2">>, <<>>, <<>>, <<"C">>, <<"1">>>>),
      PyJoin(Bar, <<<<"V">>, <<"B">>, <<" ", "1", " ">>, <<"P">>, <<"2">>, <<>>, <<"+", "2">>>>),
      PyJoin(Bar, <<<<"T">>, <<"A">>>>),
      PyJoin(Bar, <<<<"W">>, <<"A">>, <<"3">>, <<"P">>, <<"2">>, <<"C">>, <<"x">>>>),
      PyJoin(Bar, <<<<"W">>, <<"A">>, <<"1">>, <<"P">>, <<"x">>, <<"C">>, <<"y">>>>),
      PyJoin(Bar, <<<<"N">>, <<"A">>, <<"4">>, <<"P">>, <<"2">>, <<"C">>, <<"-", "1">>>>),
      <<>>,
      <<" ">> }

BookTxtFiles ==
    {TxtFile(lead, h, d) : lead \in 0..MaxLead, h \in BookTxtHeaders,
                           d \in SeqsUpTo(BookTxtDataLines, MaxRows)}

\* column rows of uploaded book tables: the expected names in another case
\* and with blanks around them, the same with one more column, and one
\* without the quantity column
BookLayouts ==
    { [columns |-> <<S_title, S_author, <<"I", "S", "B", "N">>,
                     <<" ", "P", "u", "b", "l", "i", "s", "h", "e", "r", " ">>,
                     S_publication_year, S_category, S_quantity>>,
       at |-> <<1, 2, 3, 4, 5, 6, 7>>],
      [columns |-> <<S_isbn, <<"n", "o", "t", "e">>, S_title, S_author, S_publisher,
                     S_publication_year, S_category, S_quantity>>,
       at |-> <<3, 0, 1, 2, 4, 5, 6, 7>>],
      [columns |-> <<S_title, S_author, S_isbn, S_publisher, S_publication_year,
                     S_category>>,
       at |-> <<1, 2, 3, 4, 5, 6>>] }

\* rows of uploaded book tables, in the order of BookExpectedFields
BookTableRows ==
    { <<StrCell(<<"T">>), StrCell(<<"A">>), IntCell(1), StrCell(<<"P">>), IntCell(2),
        StrCell(<<"C">>), IntCell(3)>>,
      <<StrCell(<<"U">>), NaN, StrCell(<<"2">>), NaN, NaN, NaN, StrCell(<<"1">>)>>,
      <<StrCell(<<"V">>), StrCell(<<"B">>), StrCell(<<" ", "1", " ">>), NaN, NaN, NaN,
        IntCell(2)>>,
      <<NaN, StrCell(<<"A">>), StrCell(<<"5">>), NaN, NaN, NaN, IntCell(1)>>,
      <<StrCell(<<"W">>), StrCell(<<"A">>), StrCell(<<"3">>), NaN, StrCell(<<"x">>), NaN,
        NaN>>,
      <<StrCell(<<"W">>), StrCell(<<"A">>), IntCell(1), NaN, IntCell(2), NaN, NaN>>,
      <<StrCell(<<"N">>), StrCell(<<"A">>), StrCell(<<"4">>), NaN, NaN, NaN,
        IntCell(0 - 1)>> }

BookFiles(ft) ==
    IF ft = "txt" THEN BookTxtFiles
    ELSE IF ft = "excel"
    THEN Tables(BookLayouts, BookTableRows) \cup {UnreadableFile}
    ELSE {UnreadableFile,
          TxtFile(0, BookHeader,
                  <<PyJoin(Bar, <<<<"U">>, <<"A">>, <<"2">>, <<>>, <<>>, <<"C">>, <<"1">>>>)>>)}

UserHeader == PyJoin(Bar, UserExpectedFields)

UserTxtHeaders ==
    {UserHeader, PyJoin(Bar, <<S_full_name, S_email>>)}

UserTxtDataLines ==
    { PyJoin(Bar, <<<<"J">>, <<"a">>, <<"1">>, <<"s">>, <<"R", "1">>, <<"T", "r", "u", "e">>>>),
      PyJoin(Bar, <<<<"K">>, <<"b">>, <<>>, <<>>, <<"R", "2">>, <<"n", "o">>>>),
      PyJoin(Bar, <<<<"L">>, <<"a">>, <<>>, <<>>, <<"R", "3">>, <<"1">>>>),
      PyJoin(Bar, <<<<"M">>, <<"d">>, <<>>, <<>>, <<"R", "1">>, <<" ", "Y", "E", "S", " ">>>>),
      PyJoin(Bar, <<<<"Q">>, <<"c">>, <<>>, <<>>, <<"R", "4">>, <<>>>>),
      PyJoin(Bar, <<<<"J">>, <<"a">>>>),
      <<>> }

UserTxtFiles ==
    {TxtFile(lead, h, d) : lead \in 0..MaxLead, h \in UserTxtHeaders,
                           d \in SeqsUpTo(UserTxtDataLines, MaxRows)}

UserLayouts ==
    { [columns |-> <<<<"F", "u", "l", "l", "_", "N", "a", "m", "e">>, S_email, S_phone,
                     S_address, S_registration_number,
                     <<"i", "s", "_", "a", "c", "t", "i", "v", "e", " ">>>>,
       at |-> <<1, 2, 3, 4, 5, 6>>],
      [columns |-> <<S_full_name, S_email, S_phone, S_address, S_is_active>>,
       at |-> <<1, 2, 3, 4, 6>>] }

\* rows of uploaded user tables, in the order of UserExpectedFields
UserTableRows ==
    { <<StrCell(<<"J">>), StrCell(<<"a">>), IntCell(1), NaN, StrCell(<<"R", "1">>),
        BoolCell(TRUE)>>,
      <<StrCell(<<"K">>), StrCell(<<"b">>), NaN, NaN, StrCell(<<"R", "2">>), NaN>>,
      <<StrCell(<<"L">>), StrCell(<<"a">>), NaN, NaN, StrCell(<<"R", "1">>),
        StrCell(<<"F", "a", "l", "s", "e">>)>>,
      <<StrCell(<<"M">>), StrCell(<<"a">>), NaN, NaN, StrCell(<<"R", "3">>), IntCell(0)>>,
      <<NaN, StrCell(<<"e">>), NaN, NaN, StrCell(<<"R", "5">>), NaN>>,
      <<StrCell(<<"Q">>), NaN, NaN, NaN, IntCell(7), BoolCell(FALSE)>> }

UserFiles(ft) ==
    IF ft = "txt" THEN UserTxtFiles
    ELSE IF ft = "excel"
    THEN Tables(UserLayouts, UserTableRows) \cup {UnreadableFile}
    ELSE {UnreadableFile,
          TxtFile(0, UserHeader,
                  <<PyJoin(Bar, <<<<"K">>, <<"b">>, <<>>, <<>>, <<"R", "2">>, <<"n", "o">>>>)>>)}

\* the declared types a caller passes: the two supported tags and another
FileTypes == {"txt", "excel", "pdf"}

\* a Book that was in the table before the import, one copy on loan
PreBook ==
    [title |-> <<"T">>, author |-> <<"A">>, isbn |-> <<"1">>, publisher |-> <<>>,
     publication_year |-> <<>>, category |-> <<>>, quantity |-> 2,
     available_quantity |-> 1]

\* a LibraryUser that was in the table before the import
PreUser ==
    [full_name |-> <<"J">>, email |-> <<"a">>, phone |-> <<>>, address |-> <<>>,
     registration_number |-> <<"R", "1">>, is_active |-> FALSE]

(***************************************************************************)
(* Actions.                                                                *)
(***************************************************************************)
Book_process_file ==
    /\ pc = "idle"
    /\ \E ft \in FileTypes : \E f \in BookFiles(ft) :
          Begin("book", ft, f, ProcessFile(ft, f, BookExpectedFields))
    /\ UNCHANGED not_import

User_process_file ==
    /\ pc = "idle"
    /\ \E ft \in FileTypes : \E f \in UserFiles(ft) :
          Begin("user", ft, f, ProcessFile(ft, f, UserExpectedFields))
    /\ UNCHANGED not_import

\* the loop is txt: for idx, line in enumerate(lines[1:], start=2)
\*             excel: for idx, row in df.iterrows()
InLoop == pc = "rows" /\ idx <= (IF file_type = "txt" THEN Len(lines) ELSE Len(lines) - 1)

Book_txt_row ==
    /\ InLoop /\ kind = "book" /\ file_type = "txt"
    /\ RowStep(BookTxtRow(lines[idx], idx, books))
    /\ UNCHANGED not_import

Book_excel_row ==
    /\ InLoop /\ kind = "book" /\ file_type = "excel"
    /\ RowStep(BookExcelRow(lines[idx + 1], idx, books))
    /\ UNCHANGED not_import

User_txt_row ==
    /\ InLoop /\ kind = "user" /\ file_type = "txt"
    /\ RowStep(UserTxtRow(lines[idx], idx, users))
    /\ UNCHANGED not_import

User_excel_row ==
    /\ InLoop /\ kind = "user" /\ file_type = "excel"
    /\ RowStep(UserExcelRow(lines[idx + 1], idx, users))
    /\ UNCHANGED not_import

process_file_return ==
    /\ pc = "rows" /\ ~InLoop
    /\ Return
    /\ UNCHANGED not_import

\* the caller hands the same file to the same process_file once more, the
\* call before having ended (a dict returned, or an exception)
process_file_again ==
    /\ pc \in {"aborted", "finished", "raised"}
    /\ Len(done) < MaxCalls - 1
    /\ done' = Append(done, [pc |-> pc, result |-> result,
                             books |-> books, users |-> users])
    /\ Begin(kind, file_type, file,
             ProcessFile(file_type, file,
                         IF kind = "book" THEN BookExpectedFields
                                          ELSE UserExpectedFields))
    /\ UNCHANGED loan_vars
    /\ UNCHANGED conc_vars
    /\ UNCHANGED view_vars

\* the files of a caller who imports one file after another: text files and
\* tables that name the same keys in both formats, a file that names a key
\* twice, and a line the table refuses
SeqBookLines ==
    << PyJoin(Bar, <<<<"U">>, <<"A">>, <<"2">>, <<>>, <<>>, <<"C">>, <<"1">>>>),
       PyJoin(Bar, <<<<"V">>, <<"B">>, <<" ", "1", " ">>, <<"P">>, <<"2">>, <<>>, <<"+", "2">>>>),
       PyJoin(Bar, <<<<"N">>, <<"A">>, <<"4">>, <<"P">>, <<"2">>, <<"C">>, <<"-", "1">>>>) >>

SeqBookRows ==
    << <<StrCell(<<"T">>), StrCell(<<"A">>), IntCell(1), StrCell(<<"P">>), IntCell(2),
         StrCell(<<"C">>), IntCell(3)>>,
       <<StrCell(<<"U">>), NaN, StrCell(<<"2">>), NaN, NaN, NaN, StrCell(<<"1">>)>> >>

SeqUserLines ==
    << PyJoin(Bar, <<<<"K">>, <<"b">>, <<>>, <<>>, <<"R", "2">>, <<"n", "o">>>>),
       PyJoin(Bar, <<<<"L">>, <<"a">>, <<>>, <<>>, <<"R", "3">>, <<"1">>>>) >>

SeqUserRows ==
    << <<StrCell(<<"J">>), StrCell(<<"a">>), IntCell(1), NaN, StrCell(<<"R", "1">>),
         BoolCell(TRUE)>>,
       <<StrCell(<<"K">>), StrCell(<<"b">>), NaN, NaN, StrCell(<<"R", "2">>), NaN>> >>

SeqFiles(k, ft) ==
    LET ls == IF k = "book" THEN SeqBookLines ELSE SeqUserLines
        rs == IF k = "book" THEN SeqBookRows ELSE SeqUserRows
        header == IF k = "book" THEN BookHeader ELSE UserHeader
        columns == IF k = "book" THEN BookExpectedFields ELSE UserExpectedFields
    IN  IF ft = "txt"
        THEN {TxtFile(0, header, <<ls[i]>>) : i \in 1..Len(ls)}
             \cup {TxtFile(0, header, <<ls[1], ls[1]>>)}
        ELSE {TableFile(columns, <<rs[i]>>) : i \in 1..Len(rs)}
             \cup {TableFile(columns, <<rs[2], rs[1]>>)}

\* the caller hands a file to process_file, of either class and in either
\* format, no call running: the first call, or one after a call that ended
process_file_next ==
    /\ pc \in {"idle", "aborted", "finished", "raised"}
    /\ Len(done) + (IF pc = "idle" THEN 0 ELSE 1) < MaxCalls
    /\ done' = IF pc = "idle" THEN done
               ELSE Append(done, [pc |-> pc, result |-> result,
                                  books |-> books, users |-> users])
    /\ \E k \in {"book", "user"} : \E ft \in {"txt", "excel"} :
       \E f \in SeqFiles(k, ft) :
          Begin(k, ft, f,
                ProcessFile(ft, f, IF k = "book" THEN BookExpectedFields
                                                 ELSE UserExpectedFields))
    /\ UNCHANGED loan_vars
    /\ UNCHANGED conc_vars
    /\ UNCHANGED view_vars

\* no call of process_file yet
NoImport ==
    /\ pc = "idle"
    /\ kind = ""
    /\ file_type = ""
    /\ file = UnreadableFile
    /\ lines = <<>>
    /\ idx = 0
    /\ created_count = 0
    /\ errors = <<>>
    /\ result = <<>>
    /\ txn = <<<<>>, <<>>>>
    /\ done = <<>>

\* what last_op holds: the operation, the Loan id it was about (0: none),
\* the value the method returned or whether the request was accepted, and
\* the HTTP status of the response (0: not a request)
Op(op, loan, ok, http) == [op |-> op, loan |-> loan, ok |-> ok, http |-> http]

\* a call of process_txt_file that has not started
IdleCall ==
    [pc |-> "idle", kind |-> "", lines |-> <<>>, idx |-> 0, created_count |-> 0,
     errors |-> <<>>, result |-> <<>>, data |-> <<>>, pending |-> <<>>]

\* the callers of process_txt_file that may run at the same time
Callers == {1, 2}

\* no calls running at the same time
NoCalls ==
    /\ sess = [p \in Callers |-> IdleCall]
    /\ raced = FALSE

\* a POST of a Loan that has not started: where it is, the Book instance
\* it holds (<<>>: none yet), the LibraryUser it names and the id of the Loan
\* it has inserted (0: none)
IdleRequest == [pc |-> "idle", book |-> <<>>, user |-> 0, loan |-> 0]

\* no answer of bulk_upload, no overdue listing, no concurrent POST yet
NoViews ==
    /\ response = <<>>
    /\ today = 0
    /\ listing = <<>>
    /\ req = [p \in Callers |-> IdleRequest]

\* no Loan yet
NoLoans ==
    /\ loans = <<>>
    /\ next_id = 1
    /\ last_op = Op("", 0, TRUE, 0)

Init ==
    /\ \E seeded \in BOOLEAN :
          /\ books = IF seeded THEN <<PreBook>> ELSE <<>>
          /\ users = IF seeded THEN <<PreUser>> ELSE <<>>
    /\ NoImport
    /\ NoLoans
    /\ NoCalls
    /\ NoViews

Next ==
    \/ Book_process_file
    \/ User_process_file
    \/ Book_txt_row
    \/ Book_excel_row
    \/ User_txt_row
    \/ User_excel_row
    \/ process_file_return

Spec == Init /\ [][Next]_vars

\* the same, the caller importing a file again
NextAgain == Next \/ process_file_again

SpecAgain == Init /\ [][NextAgain]_vars

\* calls of process_file one after the other, each with a file of its own
SeqNext ==
    \/ process_file_next
    \/ Book_txt_row
    \/ Book_excel_row
    \/ User_txt_row
    \/ User_excel_row
    \/ process_file_return

SeqSpec == Init /\ [][SeqNext]_vars

(***************************************************************************)
(* BookViewSet.bulk_upload and LibraryUserViewSet.bulk_upload: the         *)
(* Response built from the dict process_file returned.  The message is the *)
(* f-string's parts: the fixed text, the interpolated count (<<>> where    *)
(* there is none) and the noun.                                            *)
(***************************************************************************)
\* variant: 201 is answered only when no row failed
bulk_upload_response_NoErrors(k, r) ==
    LET noun == IF k = "book" THEN "books" ELSE "users"
    IN  IF r.success /\ r.errors = <<>>
        THEN [status |-> 201,
              message |-> <<"Successfully imported", <<r.created>>, noun>>,
              created |-> r.created, errors |-> r.errors]
        ELSE [status |-> 400, message |-> <<"Failed to import", <<>>, noun>>,
              created |-> r.created, errors |-> r.errors]

\* the two branches on result['success']
bulk_upload_response(k, r) ==
    LET noun == IF k = "book" THEN "books" ELSE "users"
    IN  IF r.success
        THEN [status |-> 201,
              message |-> <<"Successfully imported", <<r.created>>, noun>>,
              created |-> r.created, errors |-> r.errors]
        ELSE [status |-> 400, message |-> <<"Failed to import", <<>>, noun>>,
              created |-> r.created, errors |-> r.errors]

\* the end of bulk_upload: process_file has returned to the view, which the
\* upload serializer lets through with file_type 'txt' or 'excel' only
bulk_upload ==
    /\ pc \in {"aborted", "finished"}
    /\ file_type \in {"txt", "excel"}
    /\ response = <<>>
    /\ response' = <<bulk_upload_response(kind, result[1])>>
    /\ UNCHANGED <<books, users, today, listing, req>>
    /\ UNCHANGED import_vars
    /\ UNCHANGED loan_vars
    /\ UNCHANGED conc_vars

UploadNext == Next \/ bulk_upload

UploadSpec == Init /\ [][UploadNext]_vars

(***************************************************************************)
(* Loans.  A Loan refers to its Book and its LibraryUser by their place in *)
(* the tables (on_delete=PROTECT: neither goes while the Loan is there).   *)
(* The operations run one after the other, each on records freshly read.   *)
(***************************************************************************)
\* Loan.LoanStatus
LoanStatus == {"active", "returned", "overdue", "renewed"}

\* Book.is_available
is_available(book) == book.available_quantity > 0

\* Book.reserve_copy: the value it returns and the Book it leaves
reserve_copy(book) ==
    IF book.available_quantity > 0
    THEN [ret |-> TRUE, book |-> [book EXCEPT !.available_quantity = @ - 1]]
    ELSE [ret |-> FALSE, book |-> book]

\* variant: a copy is taken back whatever the count
return_copy_Unguarded(book) ==
    [ret |-> TRUE, book |-> [book EXCEPT !.available_quantity = @ + 1]]

\* Book.return_copy: the value it returns and the Book it leaves
return_copy(book) ==
    IF book.available_quantity < book.quantity
    THEN [ret |-> TRUE, book |-> [book EXCEPT !.available_quantity = @ + 1]]
    ELSE [ret |-> FALSE, book |-> book]

\* LibraryUser.can_borrow
can_borrow(user) == user.is_active

\* variant: the borrower is not looked at
LoanSerializer_validate_AnyUser(book, user, creating) ==
    IF creating /\ ~is_available(book) THEN <<"book">> ELSE <<>>

\* LoanSerializer.validate: the field of the ValidationError it raises, or
\* <<>> when it returns the data
LoanSerializer_validate(book, user, creating) ==
    IF creating /\ ~is_available(book) THEN <<"book">>
    ELSE IF ~can_borrow(user) THEN <<"user">>
    ELSE <<>>

\* BookSerializer.validate, given the quantity and available_quantity the
\* Book would have: TRUE when it returns the data.  `if available and
\* quantity and ...` takes an int for true when it is not 0.
BookSerializer_validate(quantity, available) ==
    ~(available # 0 /\ quantity # 0 /\ available > quantity)

\* Loan.objects.create(book=, user=, status=)
NewLoan(b, u, status) == [id |-> next_id, book |-> b, user |-> u, status |-> status]

\* the sequence q without its i-th element
Without(q, i) == SubSeq(q, 1, i - 1) \o SubSeq(q, i + 1, Len(q))

\* variant: the endpoint does not look at the status
ReturnRefused_Never(loan) == FALSE

\* LoanViewSet.return_loan: the request is answered 400
ReturnRefused(loan) == loan.status = "returned"

\* a Book of q copies, a of them on the shelf
LoanBook(q, a) == [PreBook EXCEPT !.quantity = q, !.available_quantity = a]

\* a LibraryUser who may borrow
ActiveUser ==
    [full_name |-> <<"K">>, email |-> <<"b">>, phone |-> <<>>, address |-> <<>>,
     registration_number |-> <<"R", "2">>, is_active |-> TRUE]

\* book.reserve_copy(), called on a Book of the table
Book_reserve_copy ==
    /\ \E b \in 1..Len(books) :
          LET r == reserve_copy(books[b])
          IN  /\ books' = [books EXCEPT ![b] = r.book]
              /\ last_op' = Op("reserve_copy", 0, r.ret, 0)
    /\ UNCHANGED <<users, loans, next_id>>
    /\ UNCHANGED import_vars
    /\ UNCHANGED conc_vars
    /\ UNCHANGED view_vars

\* book.return_copy(), called on a Book of the table
Book_return_copy ==
    /\ \E b \in 1..Len(books) :
          LET r == return_copy(books[b])
          IN  /\ books' = [books EXCEPT ![b] = r.book]
              /\ last_op' = Op("return_copy", 0, r.ret, 0)
    /\ UNCHANGED <<users, loans, next_id>>
    /\ UNCHANGED import_vars
    /\ UNCHANGED conc_vars
    /\ UNCHANGED view_vars

\* PUT or PATCH of a Book through BookSerializer
BookSerializer_update ==
    /\ \E b \in 1..Len(books) : \E q, a \in 0..MaxCopies :
          IF BookSerializer_validate(q, a)
          THEN /\ books' = [books EXCEPT ![b] = LoanBook(q, a)]
               /\ last_op' = Op("book_update", 0, TRUE, 200)
          ELSE /\ books' = books
               /\ last_op' = Op("book_update", 0, FALSE, 400)
    /\ UNCHANGED <<users, loans, next_id>>
    /\ UNCHANGED import_vars
    /\ UNCHANGED conc_vars
    /\ UNCHANGED view_vars

\* POST of a Loan: LoanSerializer.validate, then LoanSerializer.create
LoanSerializer_create ==
    /\ next_id <= MaxLoans
    /\ \E b \in 1..Len(books) : \E u \in 1..Len(users) : \E status \in LoanStatus :
          IF LoanSerializer_validate(books[b], users[u], TRUE) # <<>>
          THEN /\ last_op' = Op("serializer_create", 0, FALSE, 400)
               /\ UNCHANGED <<books, loans, next_id>>
          ELSE /\ loans' = Append(loans, NewLoan(b, u, status))
               /\ next_id' = next_id + 1
               /\ books' = [books EXCEPT ![b] = reserve_copy(@).book]
               /\ last_op' = Op("serializer_create", next_id, TRUE, 201)
    /\ UNCHANGED users
    /\ UNCHANGED import_vars
    /\ UNCHANGED conc_vars
    /\ UNCHANGED view_vars

\* LoanRepository.create(data)
LoanRepository_create ==
    /\ next_id <= MaxLoans
    /\ \E b \in 1..Len(books) : \E u \in 1..Len(users) : \E status \in LoanStatus :
          /\ loans' = Append(loans, NewLoan(b, u, status))
          /\ last_op' = Op("repository_create", next_id, TRUE, 0)
    /\ next_id' = next_id + 1
    /\ UNCHANGED <<books, users>>
    /\ UNCHANGED import_vars
    /\ UNCHANGED conc_vars
    /\ UNCHANGED view_vars

\* loan.mark_as_returned(), as LoanAdmin.mark_as_returned calls it
Loan_mark_as_returned ==
    /\ \E i \in 1..Len(loans) :
          /\ loans' = [loans EXCEPT ![i].status = "returned"]
          /\ books' = [books EXCEPT ![loans[i].book] = return_copy(@).book]
          /\ last_op' = Op("mark_as_returned", loans[i].id, TRUE, 0)
    /\ UNCHANGED <<users, next_id>>
    /\ UNCHANGED import_vars
    /\ UNCHANGED conc_vars
    /\ UNCHANGED view_vars

\* POST .../return_loan/
LoanViewSet_return_loan ==
    /\ \E i \in 1..Len(loans) :
          IF ReturnRefused(loans[i])
          THEN /\ last_op' = Op("return_loan", loans[i].id, FALSE, 400)
               /\ UNCHANGED <<books, loans>>
          ELSE /\ loans' = [loans EXCEPT ![i].status = "returned"]
               /\ books' = [books EXCEPT ![loans[i].book] = return_copy(@).book]
               /\ last_op' = Op("return_loan", loans[i].id, TRUE, 200)
    /\ UNCHANGED <<users, next_id>>
    /\ UNCHANGED import_vars
    /\ UNCHANGED conc_vars
    /\ UNCHANGED view_vars

\* LoanRepository.update(loan, {'status': status})
LoanRepository_update ==
    /\ \E i \in 1..Len(loans) : \E status \in LoanStatus :
          /\ loans' = [loans EXCEPT ![i].status = status]
          /\ last_op' = Op("repository_update", loans[i].id, TRUE, 0)
    /\ UNCHANGED <<books, users, next_id>>
    /\ UNCHANGED import_vars
    /\ UNCHANGED conc_vars
    /\ UNCHANGED view_vars

\* LoanRepository.delete(loan)
LoanRepository_delete ==
    /\ \E i \in 1..Len(loans) :
          /\ loans' = Without(loans, i)
          /\ last_op' = Op("repository_delete", loans[i].id, TRUE, 0)
    /\ UNCHANGED <<books, users, next_id>>
    /\ UNCHANGED import_vars
    /\ UNCHANGED conc_vars
    /\ UNCHANGED view_vars

\* one Book, of any count within its quantity, an active and an inactive
\* LibraryUser, no Loan
LoanInit ==
    /\ \E q \in 0..MaxCopies : \E a \in 0..q : books = <<LoanBook(q, a)>>
    /\ users = <<ActiveUser, PreUser>>
    /\ NoImport
    /\ NoLoans
    /\ NoCalls
    /\ NoViews

LoanNext ==
    \/ Book_reserve_copy
    \/ Book_return_copy
    \/ BookSerializer_update
    \/ LoanSerializer_create
    \/ LoanRepository_create
    \/ Loan_mark_as_returned
    \/ LoanViewSet_return_loan
    \/ LoanRepository_update
    \/ LoanRepository_delete

LoanSpec == LoanInit /\ [][LoanNext]_vars

(***************************************************************************)
(* The overdue listing.  Days are counted from the day the model starts;   *)
(* a Loan here carries the two columns the listing and is_overdue read,    *)
(* status and due_date.                                                    *)
(***************************************************************************)
\* a Loan of the first Book to the first LibraryUser
DatedLoan(id, status, due_date) ==
    [id |-> id, book |-> 1, user |-> 1, status |-> status, due_date |-> due_date]

\* Loan.is_overdue, timezone.now().date() being `now`
is_overdue(loan, now) ==
    IF loan.status = "returned" THEN FALSE ELSE now > loan.due_date

\* LoanRepository.get_overdue_loans, timezone.now().date() being `now`
get_overdue_loans(table, now) ==
    SelectSeq(table, LAMBDA l : l.status = "active" /\ l.due_date < now)

\* GET /api/loans/overdue/: the ids of the Loans of the response
LoanViewSet_overdue ==
    /\ LET found == get_overdue_loans(loans, today)
       IN  listing' = <<{found[i].id : i \in 1..Len(found)}>>
    /\ UNCHANGED <<books, users, today, response, req>>
    /\ UNCHANGED import_vars
    /\ UNCHANGED loan_vars
    /\ UNCHANGED conc_vars

\* midnight passes; what was listed the day before is no longer at hand
Midnight ==
    /\ today < MaxDay
    /\ today' = today + 1
    /\ listing' = <<>>
    /\ UNCHANGED <<books, users, response, req>>
    /\ UNCHANGED import_vars
    /\ UNCHANGED loan_vars
    /\ UNCHANGED conc_vars

\* Loans of every status and due date
OverdueInit ==
    /\ books = <<PreBook>>
    /\ users = <<ActiveUser>>
    /\ NoImport
    /\ NoCalls
    /\ \E n \in 0..MaxLoans :
       \E status \in [1..n -> LoanStatus] : \E due \in [1..n -> 0..MaxDay] :
          /\ loans = [i \in 1..n |-> DatedLoan(i, status[i], due[i])]
          /\ next_id = n + 1
    /\ last_op = Op("", 0, TRUE, 0)
    /\ NoViews

OverdueNext == LoanViewSet_overdue \/ Midnight

OverdueSpec == OverdueInit /\ [][OverdueNext]_vars

(***************************************************************************)
(* POSTs of a Loan served at the same time.  Nothing in LoanSerializer or  *)
(* Book locks the Book's row (no select_for_update, no F() expression, no  *)
(* transaction): each request reads the Book into an instance of its own,  *)
(* inserts its Loan, and reserve_copy then works on that instance and      *)
(* save() writes the instance's columns over the row.                      *)
(***************************************************************************)
\* the request is validated: the Book and the LibraryUser are read, and
\* LoanSerializer.validate looks at them
Post_validate(p) ==
    /\ req[p].pc = "idle"
    /\ \E u \in 1..Len(users) :
          IF LoanSerializer_validate(books[1], users[u], TRUE) # <<>>
          THEN req' = [req EXCEPT ![p].pc = "refused", ![p].user = u]
          ELSE req' = [req EXCEPT ![p].pc = "validated", ![p].user = u,
                                  ![p].book = <<books[1]>>]
    /\ UNCHANGED <<books, users, response, today, listing>>
    /\ UNCHANGED import_vars
    /\ UNCHANGED loan_vars
    /\ UNCHANGED conc_vars

\* LoanSerializer.create: loan = super().create(validated_data)
Post_insert(p) ==
    /\ req[p].pc = "validated"
    /\ loans' = Append(loans, NewLoan(1, req[p].user, "active"))
    /\ next_id' = next_id + 1
    /\ req' = [req EXCEPT ![p].pc = "inserted", ![p].loan = next_id]
    /\ UNCHANGED <<books, users, last_op, response, today, listing>>
    /\ UNCHANGED import_vars
    /\ UNCHANGED conc_vars

\* LoanSerializer.create: book.reserve_copy(), on the instance read at
\* validation; its save() writes that instance over the Book's row
Post_reserve_copy(p) ==
    /\ req[p].pc = "inserted"
    /\ LET r == reserve_copy(req[p].book[1])
       IN  /\ books' = IF r.ret THEN [books EXCEPT ![1] = r.book] ELSE books
           /\ req' = [req EXCEPT ![p].pc = "created", ![p].book = <<r.book>>]
    /\ UNCHANGED <<users, response, today, listing>>
    /\ UNCHANGED import_vars
    /\ UNCHANGED loan_vars
    /\ UNCHANGED conc_vars

\* a Book, an active Loan for each of its copies that is not on the shelf,
\* and two LibraryUsers
PostInit ==
    /\ \E q \in 0..MaxCopies : \E a \in 0..q :
          /\ books = <<LoanBook(q, a)>>
          /\ loans = [i \in 1..(q - a) |->
                         [id |-> i, book |-> 1, user |-> 1, status |-> "active"]]
          /\ next_id = q - a + 1
    /\ last_op = Op("", 0, TRUE, 0)
    /\ users = <<ActiveUser, PreUser>>
    /\ NoImport
    /\ NoCalls
    /\ NoViews

PostNext ==
    \E p \in Callers : Post_validate(p) \/ Post_insert(p) \/ Post_reserve_copy(p)

PostSpec == PostInit /\ [][PostNext]_vars

(***************************************************************************)
(* What the properties speak of.                                           *)
(***************************************************************************)
\* the call has returned a dict
Returned == pc \in {"aborted", "finished"}

\* the table the running processor writes, now and when the call began
Table == IF kind = "book" THEN books ELSE users
TableAtStart == IF kind = "book" THEN txn[1] ELSE txn[2]
OtherTable == IF kind = "book" THEN users ELSE books
OtherTableAtStart == IF kind = "book" THEN txn[2] ELSE txn[1]

NonBlank(line) == PyStrip(line) # <<>>

\* the rows of the uploaded file, in file order.  Text: the lines after the
\* header, the header being the first non-blank line.  Table: its rows.
FileRows ==
    IF file_type = "txt"
    THEN LET ls == PySplit(file.text, "\n")
             h == CHOOSE i \in 1..Len(ls) :
                     NonBlank(ls[i]) /\ \A j \in 1..(i - 1) : ~NonBlank(ls[j])
         IN  SubSeq(ls, h + 1, Len(ls))
    ELSE lines

\* the natural keys of a record of either table
KeysOf(k, rec) ==
    IF k = "book" THEN {<<"isbn", rec.isbn>>}
    ELSE {<<"registration_number", rec.registration_number>>, <<"email", rec.email>>}

KeysIn(k, store) == UNION {KeysOf(k, store[i]) : i \in 1..Len(store)}

\* a row, as the specification reads it:
\*   candidate : not a blank line, not a row with an empty identifying field
\*   decoded   : it has the expected number of fields
\*   coerced   : its numeric fields are integers (publication_year may be empty)
\*   keys      : the natural keys it would claim
RowView(k, ft, row) ==
    LET f == PySplit(PyStrip(row), "|")
    IN  CASE k = "book" /\ ft = "txt" ->
               [candidate |-> NonBlank(row),
                decoded |-> Len(f) = 7,
                coerced |-> Len(f) = 7
                            /\ (PyStrip(f[5]) = <<>> \/ PyInt(f[5]).ok)
                            /\ PyInt(f[7]).ok,
                keys |-> IF Len(f) = 7 THEN {<<"isbn", PyStrip(f[3])>>} ELSE {}]
          [] k = "user" /\ ft = "txt" ->
               [candidate |-> NonBlank(row),
                decoded |-> Len(f) = 6,
                coerced |-> Len(f) = 6,
                keys |-> IF Len(f) = 6
                         THEN {<<"registration_number", PyStrip(f[5])>>,
                               <<"email", PyStrip(f[2])>>}
                         ELSE {}]
          [] k = "book" /\ ft = "excel" ->
               [candidate |-> ~IsNa(row[S_title]) /\ ~IsNa(row[S_isbn]),
                decoded |-> TRUE,
                coerced |-> /\ IsNa(row[S_publication_year])
                               \/ CellInt(row[S_publication_year]).ok
                            /\ CellInt(row[S_quantity]).ok,
                keys |-> {<<"isbn", PyStrip(CellStr(row[S_isbn]))>>}]
          [] k = "user" /\ ft = "excel" ->
               [candidate |-> ~IsNa(row[S_full_name])
                              /\ ~IsNa(row[S_registration_number]),
                decoded |-> TRUE,
                coerced |-> TRUE,
                keys |-> {<<"registration_number",
                            PyStrip(CellStr(row[S_registration_number]))>>,
                          <<"email", PyStrip(CellStr(row[S_email]))>>}]

\* the candidate rows of `rows` that pass and that fail, given the keys
\* `seen` in the table: a row passes when it decodes, coerces and claims no
\* key that is in the table or was claimed by a row that passed before it
RECURSIVE Tally(_, _, _, _, _)
Tally(k, ft, rows, seen, acc) ==
    IF rows = <<>> THEN acc
    ELSE LET v == RowView(k, ft, Head(rows))
         IN  IF ~v.candidate THEN Tally(k, ft, Tail(rows), seen, acc)
             ELSE IF v.decoded /\ v.coerced /\ v.keys \cap seen = {}
             THEN Tally(k, ft, Tail(rows), seen \cup v.keys,
                        [acc EXCEPT !.passed = @ + 1])
             ELSE Tally(k, ft, Tail(rows), seen,
                        [acc EXCEPT !.failed = @ + 1])

Expected ==
    Tally(kind, file_type, FileRows, KeysIn(kind, TableAtStart),
          [passed |-> 0, failed |-> 0])

(***************************************************************************)
(* Imports that run at the same time.  Each call of process_txt_file has   *)
(* its own transaction: its exists() queries see the committed tables and  *)
(* the rows it inserted itself; its INSERT waits while another open        *)
(* transaction holds a row with one of its keys, and is checked against    *)
(* the unique indexes once that transaction is over.  A database that      *)
(* locks more than the key makes the waiting INSERT fail instead           *)
(* (OperationalError), which no except clause names either.                *)
(***************************************************************************)
\* the other caller
Other(p) == CHOOSE q \in Callers : q # p

\* the committed table of a kind
Committed(k) == IF k = "book" THEN books ELSE users

\* what the queries of caller p see
View(p) == Committed(sess[p].kind) \o sess[p].pending

\* the dict built from a line that has the expected number of fields
TxtRowData(k, line) ==
    LET fields == PySplit(PyStrip(line), "|")
    IN  IF k = "book" THEN BookTxtData(fields).data ELSE UserTxtData(fields)

TxtRow(k, line, n, store) ==
    IF k = "book" THEN BookTxtRow(line, n, store) ELSE UserTxtRow(line, n, store)

InsertOk(k, store, data) ==
    IF k = "book" THEN BookInsertOk(store, data) ELSE UserInsertOk(store, data)

\* data lines of the files imported at the same time
ConcLines(k) ==
    IF k = "book"
    THEN { PyJoin(Bar, <<<<"U">>, <<"A">>, <<"2">>, <<>>, <<>>, <<"C">>, <<"1">>>>),
           PyJoin(Bar, <<<<"W">>, <<"B">>, <<"3">>, <<>>, <<>>, <<>>, <<"2">>>>) }
    ELSE { PyJoin(Bar, <<<<"K">>, <<"b">>, <<>>, <<>>, <<"R", "2">>, <<"1">>>>),
           PyJoin(Bar, <<<<"Z">>, <<"b">>, <<>>, <<>>, <<"R", "6">>, <<"1">>>>) }

ConcFiles(k) ==
    {TxtFile(0, IF k = "book" THEN BookHeader ELSE UserHeader, d) :
        d \in (SeqsUpTo(ConcLines(k), MaxConcRows) \ {<<>>})}

\* caller p calls process_txt_file: everything up to the row loop
Conc_process_file(p) ==
    /\ sess[p].pc = "idle"
    /\ \E k \in {"book", "user"} : \E f \in ConcFiles(k) :
          LET opened == TxtOpen(f.text, IF k = "book" THEN BookExpectedFields
                                                      ELSE UserExpectedFields)
          IN  sess' = [sess EXCEPT ![p] =
                          IF opened.fatal
                          THEN [@ EXCEPT !.pc = "aborted", !.kind = k,
                                         !.result = <<opened.outcome>>]
                          ELSE [@ EXCEPT !.pc = "check", !.kind = k,
                                         !.lines = opened.rows,
                                         !.idx = opened.first]]
    /\ UNCHANGED <<books, users, raced>>
    /\ UNCHANGED import_vars
    /\ UNCHANGED loan_vars
    /\ UNCHANGED view_vars

\* one iteration of caller p's loop, up to the call of objects.create
Conc_check(p) ==
    LET me == sess[p]
        you == sess[Other(p)]
        r == TxtRow(me.kind, me.lines[me.idx], me.idx, View(p))
        data == TxtRowData(me.kind, me.lines[me.idx])
    IN  /\ me.pc = "check"
        /\ me.idx <= Len(me.lines)
        /\ CASE r.tag = "skip" ->
                  /\ sess' = [sess EXCEPT ![p].idx = @ + 1]
                  /\ UNCHANGED raced
             [] r.tag = "error" ->
                  /\ sess' = [sess EXCEPT ![p].idx = @ + 1,
                                          ![p].errors = Append(@, r.err)]
                  /\ UNCHANGED raced
             [] r.tag \in {"create", "raise"} ->
                  /\ sess' = [sess EXCEPT ![p].pc = "insert", ![p].data = <<data>>]
                  /\ raced' = (raced \/ (/\ you.pc = "insert"
                                         /\ you.kind = me.kind
                                         /\ KeysOf(me.kind, data)
                                               \cap KeysOf(you.kind, you.data[1]) # {}))
        /\ UNCHANGED <<books, users>>
        /\ UNCHANGED import_vars
        /\ UNCHANGED loan_vars
        /\ UNCHANGED view_vars

\* caller p's INSERT has to wait: the other transaction is open and holds a
\* row with one of its keys
Waits(p) ==
    /\ sess[Other(p)].kind = sess[p].kind
    /\ KeysOf(sess[p].kind, sess[p].data[1])
          \cap KeysIn(sess[p].kind, sess[Other(p)].pending) # {}

\* objects.create of caller p runs its INSERT
Conc_insert(p) ==
    LET me == sess[p]
    IN  /\ me.pc = "insert"
        /\ ~Waits(p)
        /\ sess' = [sess EXCEPT ![p] =
                       IF InsertOk(me.kind, View(p), me.data[1])
                       THEN [@ EXCEPT !.pc = "check",
                                      !.pending = Append(@, me.data[1]),
                                      !.data = <<>>,
                                      !.created_count = @ + 1,
                                      !.idx = @ + 1]
                       ELSE [@ EXCEPT !.pc = "raised", !.pending = <<>>]]
        /\ UNCHANGED <<books, users, raced>>
        /\ UNCHANGED import_vars
        /\ UNCHANGED loan_vars
        /\ UNCHANGED view_vars

\* the INSERT of caller p fails on the lock of the other open transaction
Conc_insert_locked(p) ==
    /\ sess[p].pc = "insert"
    /\ sess[Other(p)].pending # <<>>
    /\ sess' = [sess EXCEPT ![p].pc = "raised", ![p].pending = <<>>]
    /\ UNCHANGED <<books, users, raced>>
    /\ UNCHANGED import_vars
    /\ UNCHANGED loan_vars
    /\ UNCHANGED view_vars

\* caller p's loop is over: its transaction commits and the dict is returned
Conc_return(p) ==
    LET me == sess[p]
    IN  /\ me.pc = "check"
        /\ me.idx > Len(me.lines)
        /\ IF me.kind = "book"
           THEN books' = books \o me.pending /\ UNCHANGED users
           ELSE users' = users \o me.pending /\ UNCHANGED books
        /\ sess' = [sess EXCEPT ![p].pc = "finished", ![p].pending = <<>>,
                                ![p].result =
                                    <<FinalOutcome(me.created_count, me.errors)>>]
        /\ UNCHANGED raced
        /\ UNCHANGED import_vars
        /\ UNCHANGED loan_vars
        /\ UNCHANGED view_vars

ConcNext ==
    \E p \in Callers :
        \/ Conc_process_file(p)
        \/ Conc_check(p)
        \/ Conc_insert(p)
        \/ Conc_insert_locked(p)
        \/ Conc_return(p)

ConcSpec == Init /\ [][ConcNext]_vars

(***************************************************************************)
(* Properties.                                                             *)
(***************************************************************************)
\* C1: every returned dict has success = (created > 0), whatever its errors
C1_SuccessIffCreated ==
    \A i \in 1..Len(result) : result[i].success = (result[i].created > 0)

\* a spreadsheet import has returned success together with errors
C1_Witness ==
    /\ Returned
    /\ result[1].success
    /\ result[1].errors # <<>>
    /\ file_type = "excel"

\* C2: when a call whose header or columns validated returns, created is
\* the number of candidate rows that passed decoding, coercion and the
\* uniqueness checks, len(errors) the number that failed one of them; blank
\* lines and rows with an empty identifying field count in neither
C2_CountsMatchRows ==
    pc = "finished" =>
        /\ result[1].created = Expected.passed
        /\ Len(result[1].errors) = Expected.failed

\* a text file with a passing row and a failing row has returned
C2_Witness ==
    /\ pc = "finished"
    /\ file_type = "txt"
    /\ Expected.passed = 1
    /\ Expected.failed = 1
    /\ result[1].created = 1

C4_NoRowEndsCallByException == pc # "raised"

\* the whole-file conditions: a text file with fewer than two non-blank
\* lines (no header, or no data row under it) or whose header, the first
\* non-blank line, is not the expected field sequence; a table without one
\* of the expected columns
WholeFileFatal(k, ft, f) ==
    LET expected == IF k = "book" THEN BookExpectedFields ELSE UserExpectedFields
        ls == SelectSeq(PySplit(f.text, "\n"), NonBlank)
    IN  CASE ft = "txt" -> Len(ls) < 2 \/ PySplit(PyStrip(ls[1]), "|") # expected
          [] ft = "excel" ->
               /\ f.readable
               /\ \E k1 \in 1..Len(expected) : \A i \in 1..Len(f.columns) :
                      PyStrip(PyLower(f.columns[i])) # expected[k1]
          [] OTHER -> FALSE

\* C5: a call on a file with a whole-file condition returns before any row:
\* success false, created 0, one error, both tables as they were
C5_WholeFileFatalAborts ==
    [][(pc = "idle" /\ pc' # "idle" /\ WholeFileFatal(kind', file_type', file')) =>
          /\ pc' = "aborted"
          /\ ~result'[1].success
          /\ result'[1].created = 0
          /\ Len(result'[1].errors) = 1
          /\ books' = books
          /\ users' = users]_vars

\* a table without the quantity column was rejected, the tables being seeded
C5_Witness ==
    /\ pc = "aborted"
    /\ file_type = "excel"
    /\ WholeFileFatal(kind, file_type, file)
    /\ file.rows # <<>>
    /\ books # <<>>

\* the row the loop is at
CurrentRow == IF file_type = "txt" THEN lines[idx] ELSE lines[idx + 1]

\* the row the loop is at is a candidate that fails decoding, coercion or a
\* uniqueness check against the table as it is now
CurrentRowFails ==
    LET v == RowView(kind, file_type, CurrentRow)
    IN  /\ v.candidate
        /\ ~(v.decoded /\ v.coerced /\ v.keys \cap KeysIn(kind, Table) = {})

\* C6: the iteration on a row with a recoverable failure appends one
\* message, writes nothing, and leaves the loop at the next row
C6_FailedRowIsSkipped ==
    [][(InLoop /\ CurrentRowFails) =>
          /\ Len(errors') = Len(errors) + 1
          /\ SubSeq(errors', 1, Len(errors)) = errors
          /\ books' = books
          /\ users' = users
          /\ created_count' = created_count
          /\ pc' = "rows"
          /\ idx' = idx + 1]_vars

\* a row failed and the row after it was created
C6_Witness ==
    /\ pc = "finished"
    /\ Len(errors) = 1
    /\ created_count = 1
    /\ Len(FileRows) = 2
    /\ Len(Table) = Len(TableAtStart) + 1
    /\ errors[1].n = 2

\* the lines of the uploaded text file, and the number its header has in it
FileLines == PySplit(file.text, "\n")
HeaderLineNumber ==
    CHOOSE i \in 1..Len(FileLines) :
        NonBlank(FileLines[i]) /\ \A j \in 1..(i - 1) : ~NonBlank(FileLines[j])

\* C7: the n of every 'Line <n>: ...' message is the number the failed line
\* has in the uploaded file
C7_LineNumberIsFileLine ==
    [][(InLoop /\ file_type = "txt" /\ Len(errors') > Len(errors)) =>
          /\ errors'[Len(errors')].prefix = "Line"
          /\ errors'[Len(errors')].n = HeaderLineNumber - 1 + idx
          /\ PyStrip(FileLines[HeaderLineNumber - 1 + idx]) = PyStrip(lines[idx])]_vars

\* what the code gives instead: n counts from the header, the first
\* non-blank line, whatever precedes it in the file
LineNumberCountsFromHeader ==
    [][(InLoop /\ file_type = "txt" /\ Len(errors') > Len(errors)) =>
          /\ errors'[Len(errors')].prefix = "Line"
          /\ errors'[Len(errors')].n = idx
          /\ PyStrip(FileLines[HeaderLineNumber - 1 + idx]) = PyStrip(lines[idx])]_vars

\* C8: a book row that reaches the uniqueness check with the isbn of a Book
\* in the table gets one 'already exists' message, is not stored, and the
\* loop goes on to the next row
C8_DuplicateIsbnRejected ==
    [][(/\ InLoop
        /\ kind = "book"
        /\ LET v == RowView(kind, file_type, CurrentRow)
           IN  /\ v.candidate /\ v.decoded /\ v.coerced
               /\ v.keys \cap KeysIn("book", books) # {}) =>
          /\ Len(errors') = Len(errors) + 1
          /\ SubSeq(errors', 1, Len(errors)) = errors
          /\ errors'[Len(errors')].text = "Book with ISBN already exists"
          /\ <<"isbn", errors'[Len(errors')].arg>>
                \in RowView(kind, file_type, CurrentRow).keys
          /\ books' = books
          /\ pc' = "rows"
          /\ idx' = idx + 1]_vars

\* a text row was rejected for the isbn of a Book created by the row before it
C8_Witness ==
    /\ pc = "rows"
    /\ kind = "book"
    /\ file_type = "txt"
    /\ txn[1] = <<>>
    /\ Len(books) = 1
    /\ Len(errors) = 1
    /\ errors[1].text = "Book with ISBN already exists"
    /\ errors[1].arg = books[1].isbn

\* C9: a user row whose registration number is in the table gets exactly
\* one message, the registration one, also when its email is in the table
\* too; the email message is given only when the registration is free
C9_RegistrationBeforeEmail ==
    [][(/\ InLoop
        /\ kind = "user"
        /\ RowView(kind, file_type, CurrentRow).candidate
        /\ RowView(kind, file_type, CurrentRow).decoded) =>
          LET keys == RowView(kind, file_type, CurrentRow).keys
              reg == \E key \in keys \cap KeysIn("user", users) :
                        key[1] = "registration_number"
              mail == \E key \in keys \cap KeysIn("user", users) : key[1] = "email"
              last == errors'[Len(errors')]
          IN  /\ reg =>
                    /\ Len(errors') = Len(errors) + 1
                    /\ last.text = "User with registration already exists"
              /\ (mail /\ ~reg) =>
                    /\ Len(errors') = Len(errors) + 1
                    /\ last.text = "User with email already exists"
              /\ (~mail /\ ~reg) => errors' = errors]_vars

\* a row with the registration number of one user and the email of another
\* was rejected with the registration message
C9_Witness ==
    /\ kind = "user"
    /\ file_type = "txt"
    /\ pc = "rows"
    /\ idx = 4
    /\ Len(errors) = 1
    /\ errors[1].text = "User with registration already exists"
    /\ errors[1].n = 3
    /\ UserEmailExists(users, UserTxtData(PySplit(PyStrip(lines[3]), "|")).email)

\* C10: every Book an import adds to the table has available_quantity
\* equal to quantity
C10_AvailableEqualsQuantity ==
    [][\A i \in (Len(books) + 1)..Len(books') :
          books'[i].available_quantity = books'[i].quantity]_vars

\* a spreadsheet import has created a Book of several copies
C10_Witness ==
    /\ pc = "finished"
    /\ kind = "book"
    /\ file_type = "excel"
    /\ Len(books) > Len(txn[1])
    /\ books[Len(books)].quantity > 1

\* C12: no step of an import changes or removes a record that was in a
\* table before the call: the call's first step leaves both tables as they
\* are, and every later step leaves the records of before the call in
\* place, field by field; a row whose ISBN is that of such a Book is
\* reported while the other valid rows are created
C12_ExistingRecordsUntouched ==
    [][/\ pc = "idle" => books' = books /\ users' = users
       /\ pc = "rows" =>
             /\ Len(books') >= Len(txn[1])
             /\ SubSeq(books', 1, Len(txn[1])) = txn[1]
             /\ Len(users') >= Len(txn[2])
             /\ SubSeq(users', 1, Len(txn[2])) = txn[2]]_vars

\* a text import met the ISBN of the Book that was there, reported it and
\* created the other row
C12_Witness ==
    /\ pc = "finished"
    /\ kind = "book"
    /\ file_type = "txt"
    /\ txn[1] = <<PreBook>>
    /\ created_count = 1
    /\ Len(errors) = 1
    /\ errors[1].text = "Book with ISBN already exists"
    /\ errors[1].arg = PreBook.isbn
    /\ Len(books) = 2
    /\ books[1] = PreBook

\* C13: process_file with a declared type other than 'txt' and 'excel'
\* returns success false, created 0 and the one error naming the type,
\* whatever the file holds, and leaves both tables as they are
C13_UnsupportedTypeRefused ==
    [][(pc = "idle" /\ file_type' \notin {"txt", "excel"}) =>
          /\ pc' = "aborted"
          /\ result' = <<Outcome(FALSE, 0,
                                 <<Msg("", 0, "Unsupported file type:", file_type')>>)>>
          /\ books' = books
          /\ users' = users]_vars

\* a well-formed text file was handed over under an unsupported type
C13_Witness ==
    /\ pc = "aborted"
    /\ file_type = "pdf"
    /\ file.readable
    /\ ~TxtOpen(file.text, IF kind = "book" THEN BookExpectedFields
                                            ELSE UserExpectedFields).fatal
    /\ result[1].errors[1].arg = "pdf"

\* C14: the errors list is in encounter order: the row numbers of its
\* entries increase from one entry to the next
C14_ErrorsInEncounterOrder ==
    \A i, j \in 1..Len(errors) : i < j => errors[i].n < errors[j].n

\* an import has returned with the errors of two rows
C14_Witness ==
    /\ pc = "finished"
    /\ Len(result[1].errors) = 2
    /\ result[1].errors[1].text # result[1].errors[2].text

\* a message of a uniqueness check
IsConflict(msg) ==
    msg.text \in {"Book with ISBN already exists",
                  "User with registration already exists",
                  "User with email already exists"}

\* the call before the running one
Before == done[Len(done)]

\* C11: when the import of a file has returned after its row loop, importing
\* the same file again creates nothing, is not ended by an exception and
\* leaves both tables as the first import left them; and when every row of
\* the first import was created, the second reports each of them as a
\* uniqueness conflict
C11_ReimportCreatesNothing ==
    (done # <<>> /\ Before.pc = "finished") =>
        /\ pc # "raised"
        /\ created_count = 0
        /\ books = Before.books
        /\ users = Before.users
        /\ (pc = "finished" /\ Before.result[1].errors = <<>>) =>
              /\ result[1].created = 0
              /\ ~result[1].success
              /\ Len(result[1].errors) = Before.result[1].created
              /\ \A i \in 1..Len(result[1].errors) : IsConflict(result[1].errors[i])

\* a file whose two rows were both created has been imported again
C11_Witness ==
    /\ done # <<>>
    /\ Before.pc = "finished"
    /\ Before.result[1].created = 2
    /\ Before.result[1].errors = <<>>
    /\ pc = "finished"
    /\ Len(result[1].errors) = 2

\* 0 <= available_quantity <= quantity
WithinQuantity(book) ==
    0 <= book.available_quantity /\ book.available_quantity <= book.quantity

\* the Loan of that id
LoanOf(table, id) == table[CHOOSE i \in 1..Len(table) : table[i].id = id]

HasLoan(table, id) == \E i \in 1..Len(table) : table[i].id = id

\* C15: a call of reserve_copy or return_copy on a Book whose
\* available_quantity is within 0..quantity leaves it within 0..quantity, so
\* every sequence of such calls does
C15_CopiesStayWithinQuantity ==
    [][(last_op'.op \in {"reserve_copy", "return_copy"}) =>
          \A b \in 1..Len(books) :
              WithinQuantity(books[b]) => WithinQuantity(books'[b])]_vars

\* calls have emptied the shelf of a Book of several copies and the next
\* reserve_copy was refused
C15_Witness ==
    /\ last_op.op = "reserve_copy"
    /\ ~last_op.ok
    /\ books[1].quantity = MaxCopies
    /\ books[1].available_quantity = 0

\* the operations on Loans
LoanOps ==
    {"serializer_create", "repository_create", "return_loan", "mark_as_returned",
     "repository_update", "repository_delete"}

\* this step brings a Loan into existence
LoanCreated == \E i \in 1..Len(loans') : ~HasLoan(loans, loans'[i].id)

\* this step takes a Loan to status 'returned'
LoanBecomesReturned ==
    \E i \in 1..Len(loans) :
        /\ loans[i].status # "returned"
        /\ HasLoan(loans', loans[i].id)
        /\ LoanOf(loans', loans[i].id).status = "returned"

\* C16: over the operations on Loans, available_quantity goes down by one
\* exactly in the steps that create a Loan and up by one exactly in the
\* steps that take a Loan to 'returned'
C16_CopiesFollowLoans ==
    [][(last_op'.op \in LoanOps) =>
          /\ LoanCreated <=>
                books'[1].available_quantity = books[1].available_quantity - 1
          /\ LoanBecomesReturned <=>
                books'[1].available_quantity = books[1].available_quantity + 1]_vars

\* C17: reserve_copy returns False and changes nothing at available_quantity
\* 0, return_copy returns False and changes nothing at available_quantity =
\* quantity, and in every other state the call returns True and moves
\* available_quantity by one
C17_RefusedOnlyAtTheEnds ==
    [][/\ last_op'.op = "reserve_copy" =>
             IF books[1].available_quantity = 0
             THEN ~last_op'.ok /\ books' = books
             ELSE /\ last_op'.ok
                  /\ books'[1].available_quantity = books[1].available_quantity - 1
       /\ last_op'.op = "return_copy" =>
             IF books[1].available_quantity = books[1].quantity
             THEN ~last_op'.ok /\ books' = books
             ELSE /\ last_op'.ok
                  /\ books'[1].available_quantity = books[1].available_quantity + 1]_vars

\* what holds of return_copy in every state: it returns False and changes
\* nothing when available_quantity is quantity or more, else it returns
\* True and adds one
ReturnRefusedAtOrAboveQuantity ==
    [][last_op'.op = "return_copy" =>
          IF books[1].available_quantity >= books[1].quantity
          THEN ~last_op'.ok /\ books' = books
          ELSE /\ last_op'.ok
               /\ books'[1].available_quantity = books[1].available_quantity + 1]_vars

\* C18: return_loan on a Loan whose status is 'returned' answers 400 and
\* changes neither the Loans nor the Book; a return_loan request that
\* follows a return_loan request on the same Loan is such a one
C18_SecondReturnRefused ==
    [][last_op'.op = "return_loan" =>
          LET before == LoanOf(loans, last_op'.loan)
          IN  /\ before.status = "returned" =>
                    /\ last_op'.http = 400
                    /\ loans' = loans
                    /\ books' = books
              /\ (last_op.op = "return_loan" /\ last_op.loan = last_op'.loan) =>
                    /\ last_op'.http = 400
                    /\ books' = books]_vars

\* a return_loan request was refused while a copy of the Book was still out
C18_Witness ==
    /\ last_op = Op("return_loan", 1, FALSE, 400)
    /\ HasLoan(loans, 1)
    /\ LoanOf(loans, 1).status = "returned"
    /\ books[1].available_quantity < books[1].quantity

\* C19: a creation through LoanSerializer is accepted only for a Book with
\* a copy available and a user who is active; a rejected one adds no Loan
\* and leaves available_quantity, an accepted one adds one Loan and takes
\* one from available_quantity
C19_CreationChecked ==
    [][last_op'.op = "serializer_create" =>
          IF last_op'.http = 201
          THEN /\ books[1].available_quantity > 0
               /\ Len(loans') = Len(loans) + 1
               /\ SubSeq(loans', 1, Len(loans)) = loans
               /\ users[loans'[Len(loans')].user].is_active
               /\ books'[1].available_quantity = books[1].available_quantity - 1
          ELSE /\ last_op'.http = 400
               /\ loans' = loans
               /\ books' = books]_vars

\* a creation was rejected although the Book had a copy available
C19_Witness ==
    /\ last_op = Op("serializer_create", 0, FALSE, 400)
    /\ books[1].available_quantity > 0
    /\ loans = <<>>

\* no two records of the table share a key
NoDuplicateKeys(k, store) ==
    \A i, j \in 1..Len(store) :
        i < j => KeysOf(k, store[i]) \cap KeysOf(k, store[j]) = {}

\* both callers are through: each returned a dict or was ended by an exception
BothEnded == \A p \in Callers : sess[p].pc \in {"aborted", "finished", "raised"}

HoldsDuplicate == ~NoDuplicateKeys("book", books) \/ ~NoDuplicateKeys("user", users)

\* C20, as stated: when two calls running at the same time have both passed
\* the uniqueness check with the same key before either row was inserted,
\* the tables end up holding two records with that key
C20_RaceLeavesDuplicate == (raced /\ BothEnded) => HoldsDuplicate

\* C20, as the code has it: two calls running at the same time can both pass
\* the uniqueness check with the same key, but the unique index refuses the
\* second INSERT: the tables never hold two records with one key, and of
\* two calls that raced at least one is ended by the exception, returning
\* no dict
C20_RaceRefusedByUniqueIndex ==
    /\ ~HoldsDuplicate
    /\ (raced /\ BothEnded) => \E p \in Callers : sess[p].pc = "raised"

\* two calls raced for a key; one committed its row and returned success,
\* the other was ended by the exception
C20_Witness ==
    /\ raced
    /\ \E p \in Callers :
          /\ sess[p].pc = "finished"
          /\ sess[p].result[1].success
          /\ sess[Other(p)].pc = "raised"
          /\ sess[Other(p)].kind = sess[p].kind
          /\ KeysOf(sess[p].kind, sess[Other(p)].data[1])
                \cap KeysIn(sess[p].kind, Committed(sess[p].kind)) # {}

(***************************************************************************)
(* C21.  Imports run one after the other, of books and of users, from text *)
(* files and from tables, on tables whose keys are unique: at every moment *)
(* no two Books have the same isbn, no two LibraryUsers the same           *)
(* registration_number and no two the same email.                          *)
(***************************************************************************)
C21_KeysStayUnique ==
    /\ \A i, j \in 1..Len(books) : books[i].isbn = books[j].isbn => i = j
    /\ \A i, j \in 1..Len(users) :
          (\/ users[i].registration_number = users[j].registration_number
           \/ users[i].email = users[j].email) => i = j

\* a call has created a record and ended, and the call after it, reading a
\* table, has created a record and refused a key that is in the tables
C21_Witness ==
    /\ Len(done) >= 1
    /\ pc = "finished"
    /\ file_type = "excel"
    /\ created_count >= 1
    /\ \E e \in 1..Len(errors) : IsConflict(errors[e])
    /\ \E d \in 1..Len(done) : done[d].pc = "finished" /\ done[d].result[1].created >= 1

(***************************************************************************)
(* C22.  In the loop over the rows of a table, the iteration on a row      *)
(* whose identifying cell is empty (Book: title or isbn; LibraryUser:      *)
(* full_name or registration_number) adds nothing to created_count,        *)
(* nothing to errors and nothing to either table, and leaves the loop at   *)
(* the row after it.  An empty cell is one read_excel reads as NaN.        *)
(***************************************************************************)
\* the row the loop is at has an empty identifying cell
CurrentRowUnidentified ==
    /\ InLoop
    /\ file_type = "excel"
    /\ IF kind = "book"
       THEN IsNa(CurrentRow[S_title]) \/ IsNa(CurrentRow[S_isbn])
       ELSE IsNa(CurrentRow[S_full_name]) \/ IsNa(CurrentRow[S_registration_number])

C22_UnidentifiedRowPassedOver ==
    [][CurrentRowUnidentified =>
          /\ created_count' = created_count
          /\ errors' = errors
          /\ books' = books
          /\ users' = users
          /\ pc' = "rows"
          /\ idx' = idx + 1]_vars

\* a table whose first row has an empty identifying cell and whose second
\* row was created: nothing was reported
C22_Witness ==
    /\ pc = "finished"
    /\ file_type = "excel"
    /\ Len(lines) = 2
    /\ \/ kind = "book" /\ IsNa(lines[1][S_title])
       \/ kind = "user" /\ IsNa(lines[1][S_full_name])
    /\ created_count = 1
    /\ errors = <<>>
    /\ Len(Table) = Len(TableAtStart) + 1

(***************************************************************************)
(* C23.  BookSerializer.validate lets no update through that leaves a Book *)
(* with available_quantity above quantity, quantity 0 included: after an   *)
(* accepted update the Book's available_quantity is at most its quantity.  *)
(***************************************************************************)
C23_AcceptedUpdateWithinQuantity ==
    [][(last_op'.op = "book_update" /\ last_op'.ok) =>
          books'[1].available_quantity <= books'[1].quantity]_vars

\* what holds: an accepted update leaves available_quantity at most quantity
\* unless the quantity it leaves is 0
AcceptedUpdateWithinQuantityUnlessZero ==
    [][(last_op'.op = "book_update" /\ last_op'.ok) =>
          \/ books'[1].quantity = 0
          \/ books'[1].available_quantity <= books'[1].quantity]_vars

(***************************************************************************)
(* C24.  The overdue listing holds a Loan exactly when is_overdue() is     *)
(* true of that Loan on the same day, whatever its status and due date.    *)
(***************************************************************************)
C24_ListedIffOverdue ==
    listing # <<>> =>
       \A i \in 1..Len(loans) :
          loans[i].id \in listing[1] <=> is_overdue(loans[i], today)

\* what holds: every listed Loan is overdue, and an active Loan is listed
\* exactly when it is overdue
ListedAreOverdue ==
    listing # <<>> =>
       \A i \in 1..Len(loans) :
          /\ loans[i].id \in listing[1] => is_overdue(loans[i], today)
          /\ loans[i].status = "active" =>
                (loans[i].id \in listing[1] <=> is_overdue(loans[i], today))

(***************************************************************************)
(* C25.  bulk_upload answers 201 exactly when the dict process_file        *)
(* returned has success true and 400 exactly when it has success false;    *)
(* the response carries the dict's created and errors as they are; an      *)
(* upload that left at least one record answers 201 even when other rows   *)
(* failed.                                                                 *)
(***************************************************************************)
C25_ResponseFollowsOutcome ==
    response # <<>> =>
       /\ response[1].status = 201 <=> result[1].success
       /\ response[1].status = 400 <=> ~result[1].success
       /\ response[1].created = result[1].created
       /\ response[1].errors = result[1].errors
       /\ (pc = "finished" /\ Len(Table) > Len(TableAtStart)) =>
             response[1].status = 201

\* a row was created, the row after it was refused, and the answer is 201
C25_Witness ==
    /\ response # <<>>
    /\ response[1].status = 201
    /\ response[1].created = 1
    /\ Len(response[1].errors) = 1
    /\ pc = "finished"
    /\ Len(Table) = Len(TableAtStart) + 1

(***************************************************************************)
(* C26.  In the text import of users, a line of six fields whose keys are  *)
(* free is created whatever its is_active field holds, and the created     *)
(* LibraryUser is active exactly when that field, trimmed and lower-cased, *)
(* is 'true', '1' or 'yes'; with any other value, the empty one included,  *)
(* it is inactive.                                                         *)
(***************************************************************************)
\* the fields of the line the loop is at
CurrentFields == PySplit(PyStrip(CurrentRow), "|")

C26_ActiveExactlyForTrueLiterals ==
    [][(/\ InLoop /\ kind = "user" /\ file_type = "txt"
        /\ Len(CurrentFields) = 6
        /\ KeysOf("user", UserTxtData(CurrentFields)) \cap KeysIn("user", users) = {}) =>
          /\ Len(users') = Len(users) + 1
          /\ errors' = errors
          /\ pc' = "rows"
          /\ users'[Len(users')].is_active =
                (PyLower(PyStrip(CurrentFields[6]))
                    \in {<<"t", "r", "u", "e">>, <<"1">>, <<"y", "e", "s">>})]_vars

\* users were created from a line that says ' YES ' and from a line that
\* says nothing: the first is active, the second is not
C26_Witness ==
    /\ pc = "finished"
    /\ kind = "user"
    /\ file_type = "txt"
    /\ Len(users) = 2
    /\ txn[2] = <<>>
    /\ users[1].full_name = <<"M">> /\ users[1].is_active
    /\ users[2].full_name = <<"Q">> /\ ~users[2].is_active

(***************************************************************************)
(* C27.  The iteration on a candidate row decodes, coerces, checks and     *)
(* persists in that order and ends the row in exactly one of three ways:   *)
(* committed, errored, or passed over.  A row that does not decode is      *)
(* reported for its field count; one that decodes but has an unparseable   *)
(* numeric field is reported for that field alone, even when its key is in *)
(* the table; one that coerces and claims a key of the table is reported   *)
(* for the key and nothing is written; every other row is committed.       *)
(***************************************************************************)
\* the step has appended one record to the running processor's table and
\* counted it
RowCommitted ==
    /\ Table' = Append(Table, Table'[Len(Table')])
    /\ OtherTable' = OtherTable
    /\ created_count' = created_count + 1
    /\ errors' = errors

\* the step has appended one message and written nothing
RowErrored ==
    /\ errors' = Append(errors, errors'[Len(errors')])
    /\ books' = books
    /\ users' = users
    /\ created_count' = created_count

IsDecodeError(msg) ==
    msg.text \in {"Expected 7 fields, got", "Expected 6 fields, got"}

\* the stage at which the row the loop is at ends, and how
RowEndsAtItsStage ==
    LET v == RowView(kind, file_type, CurrentRow)
        err == errors'[Len(errors')]
    IN  IF ~v.decoded THEN RowErrored /\ IsDecodeError(err)
        ELSE IF ~v.coerced
        THEN RowErrored /\ ~IsDecodeError(err) /\ ~IsConflict(err)
        ELSE IF v.keys \cap KeysIn(kind, Table) # {}
        THEN RowErrored /\ IsConflict(err)
        ELSE RowCommitted

C27_RowStagesInOrder ==
    [][(InLoop /\ RowView(kind, file_type, CurrentRow).candidate) =>
          /\ pc' = "rows"
          /\ idx' = idx + 1
          /\ RowEndsAtItsStage]_vars

\* what holds: the same of every iteration that no exception ends
RowStagesInOrderUnlessRaised ==
    [][(InLoop /\ RowView(kind, file_type, CurrentRow).candidate /\ pc' # "raised") =>
          /\ pc' = "rows"
          /\ idx' = idx + 1
          /\ RowEndsAtItsStage]_vars

(***************************************************************************)
(* C28.  A call in the row loop visits the rows of the file once each, in  *)
(* file order, appending what it creates at the end of the table, and      *)
(* after the last row it returns a dict: every iteration leaves the loop   *)
(* at the next row, and the step at the end of the rows is the return.     *)
(* The rows being finitely many, the call then returns within as many      *)
(* steps as the file has rows, and one more.                               *)
(***************************************************************************)
C28_EveryRowVisitedThenReturn ==
    [][pc = "rows" =>
          IF InLoop
          THEN /\ pc' = "rows"
               /\ idx' = idx + 1
               /\ Table' = Table \/ Table' = Append(Table, Table'[Len(Table')])
          ELSE /\ pc' = "finished"
               /\ result' # <<>>]_vars

\* what holds: each iteration leaves the loop at the next row, or an
\* exception ends the call there; the records of a table stay in the order
\* they were created in; the step at the end of the rows is the return
RowsVisitedOnceInOrder ==
    [][pc = "rows" =>
          IF InLoop
          THEN \/ pc' = "raised"
               \/ /\ pc' = "rows"
                  /\ idx' = idx + 1
                  /\ Table' = Table \/ Table' = Append(Table, Table'[Len(Table')])
          ELSE /\ pc' = "finished"
               /\ result' # <<>>]_vars

(***************************************************************************)
(* C29.  A call that an exception the except clause does not name has      *)
(* ended returns no dict, and nothing it created remains: both tables are  *)
(* as they were when the call entered transaction.atomic().                *)
(***************************************************************************)
C29_RaisedCallLeavesNothing ==
    pc = "raised" =>
       /\ result = <<>>
       /\ books = txn[1]
       /\ users = txn[2]

\* the call had created a record when a later row raised: the record is gone
C29_Witness ==
    /\ pc = "raised"
    /\ created_count >= 1
    /\ Table = TableAtStart
    /\ result = <<>>

(***************************************************************************)
(* C30.  POSTs of a Loan for one Book served at the same time, the Book    *)
(* having an active Loan for each copy that is not on the shelf: the Loans *)
(* never become more than the Book's copies, so no more are created than   *)
(* copies were on the shelf, and once every Loan inserted has had its      *)
(* reserve_copy, the copies on the shelf are fewer than the Book's copies  *)
(* by exactly the number of Loans: one decrement for each Loan created.    *)
(***************************************************************************)
\* no request stands between its insert and its reserve_copy
NoReserveOutstanding == \A p \in Callers : req[p].pc # "inserted"

C30_EachLoanTakesOneCopy ==
    /\ Len(loans) <= books[1].quantity
    /\ NoReserveOutstanding =>
          books[1].available_quantity = books[1].quantity - Len(loans)

====
